---- MODULE Spec2Model ----
(***************************************************************************)
(* Agent Twin browser front end: the voice page (voice.js), the public     *)
(* voice page (public voice script) and the chat page (chat.js), modelled  *)
(* as one event-driven state machine.  One page is open per behaviour      *)
(* (variable page); every action is one event-loop task: a DOM event       *)
(* handler, a browser callback, or the continuation of an await.           *)
(***************************************************************************)
EXTENDS Integers, Sequences, FiniteSets, TLC

\* ------------------------------------------------------------------ bounds
MaxHistory == 4      \* longest conversationHistory explored by Spec
MaxInFlight == 2     \* fetches outstanding at the same time
MaxRecorders == 2    \* MediaRecorder objects created in one page session
MaxChunks == 1       \* dataavailable events delivered per page session
MaxTicks == 2        \* clock ticks of TickMs explored
TickMs == 15000      \* granularity of the wall clock, in milliseconds
MaxWindowLen == 12   \* longest initial history of SpecWindow
MaxVoiceTimers == 1  \* pending 100 ms timers of recognition.onresult (chat)

\* ------------------------------------------------------- program constants
WindowSize == 10             \* conversationHistory.slice(-10)
MinRecordingSeconds == 30    \* if (actualDuration < 30)

\* ------------------------------------------------------------------ values
Null == "null"
Pages == {"voice", "public", "chat"}

\* Strings the user can say or type, as sequences of characters, so that
\* String.prototype.trim is a real conversion.
Texts == { <<>>, <<" ">>, <<"h", "i">>, <<"h", "i", " ">> }

IsSpace(ch) == ch = " "

RECURSIVE TrimStart(_)
TrimStart(s) ==
    IF s = <<>> THEN <<>>
    ELSE IF IsSpace(Head(s)) THEN TrimStart(Tail(s)) ELSE s

RECURSIVE TrimEnd(_)
TrimEnd(s) ==
    IF s = <<>> THEN <<>>
    ELSE IF IsSpace(s[Len(s)]) THEN TrimEnd(SubSeq(s, 1, Len(s) - 1)) ELSE s

\* String.prototype.trim
Trim(s) == TrimEnd(TrimStart(s))

\* !text, without the trim
IsBlankUntrimmed(text) == text = <<>>

\* !text || !text.trim()
IsBlank(text) == text = <<>> \/ Trim(text) = <<>>

\* only null is falsy
TruthyUnlessNull(v) == v # Null

\* JavaScript truthiness of a string-or-null value (data.audio_url, data.error)
Truthy(v) == v # Null /\ v # ""

\* a || b
OrElse(a, b) == IF Truthy(a) THEN a ELSE b

Min(a, b) == IF a < b THEN a ELSE b
Max(a, b) == IF a > b THEN a ELSE b

\* Array.prototype.slice(start) for a negative start: the elements from
\* index max(length + start, 0) to the end.
SliceFromEnd(arr, k) ==
    LET from == Max(Len(arr) - k, 0)
    IN  [i \in 1..(Len(arr) - from) |-> arr[from + i]]

\* conversationHistory.slice(0, 10): the oldest turns instead of the newest
ContextWindowOldest(h) == SubSeq(h, 1, Min(Len(h), WindowSize))

\* conversationHistory.slice(-10)
ContextWindow(h) == SliceFromEnd(h, WindowSize)

Turn(role, content) == [role |-> role, content |-> content]

ResponseText == "hi there"
AudioUrls == {Null, "", "/media/x.mp3"}
ErrorFields == {Null, "X"}

\* What the ask / generate endpoint can answer.  net: the fetch promise
\* resolves; ok: response.ok; json: the body parses as JSON.
Resp(net, ok, json, success, error, audio, mem) ==
    [net |-> net, ok |-> ok, json |-> json, success |-> success,
     error |-> error, response_text |-> ResponseText,
     generated_content |-> ResponseText, audio_url |-> audio,
     memory_extracted |-> mem]

FailureResponses ==
    {Resp(FALSE, FALSE, FALSE, FALSE, Null, Null, FALSE)}
    \cup {Resp(TRUE, FALSE, FALSE, FALSE, Null, Null, FALSE)}
    \cup {Resp(TRUE, FALSE, TRUE, FALSE, e, Null, FALSE) : e \in ErrorFields}
    \cup {Resp(TRUE, TRUE, FALSE, FALSE, Null, Null, FALSE)}
    \cup {Resp(TRUE, TRUE, TRUE, FALSE, e, Null, FALSE) : e \in ErrorFields}

SuccessResponses ==
    {Resp(TRUE, TRUE, TRUE, TRUE, Null, a, m) : a \in AudioUrls, m \in BOOLEAN}

AskResponses == FailureResponses \cup SuccessResponses

\* error.message of the exception the response handling of voice.js throws
\* (voice.js 366-369, 386-388), for a failure response.
AskErrorMessage(r) ==
    IF ~r.net THEN "Failed to fetch"
    ELSE IF ~r.json THEN "Unexpected token"
    ELSE IF ~r.ok THEN OrElse(r.error, "HTTP 500: Internal Server Error")
    ELSE OrElse(r.error, "Failed to get response")

Status(text, type) == [text |-> text, type |-> type]

\* ------------------------------------------------------------------- state
VARIABLES
    page,                \* which page this browsing session has open
    cap,                 \* longest conversationHistory this behaviour explores
    scenario,            \* observer of the press-speak-release exchange
    boot,                \* "auth" | "loading" | "ready" | "dead"
    navigation,          \* Null, or where window.location was sent
    shown,               \* voice page: the section displayed
    profilePending,      \* voice page: /voice/profile/ fetch in flight
    mimeSupport,         \* the MIME types this browser's MediaRecorder takes
    recognition,         \* let recognition: TRUE when a recognizer exists
    recState,            \* the browser's SpeechRecognition object
    isRecording,         \* let isRecording
    isPressed,           \* let isPressed of the conversation record button
    conversationHistory, \* let conversationHistory
    status,              \* #statusText / #statusMessage (updateStatus)
    waveform,            \* class of #waveform (setWaveformState)
    asks,                \* ask / generate fetches in flight, in send order
    audioPlayer,         \* the #audioPlayer element
    inputValue,          \* chat page: #messageInput.value
    chatMessages,        \* chat page: children of #chatMessages
    noteTimers,          \* chat page: pending memory-note timeouts
    synth,               \* chat page: window.speechSynthesis queue
    synthSupported,      \* chat page: 'speechSynthesis' in window
    voiceTimers,         \* chat page: pending setTimeout(sendVoiceMessage)
    lastSystem,          \* chat page: text of the newest system message
    isRecordingSetup,    \* let isRecordingSetup
    setupPressed,        \* let isPressed of the setup record button
    mediaRecorder,       \* let mediaRecorder: 0 (null) or a recorder's index
    audioChunks,         \* let audioChunks
    recordingStartTime,  \* let recordingStartTime: -1 (null) or milliseconds
    recordingTimer,      \* let recordingTimer: 0 (null) or an interval id
    intervals,           \* the setInterval timers that are running
    gumPending,          \* getUserMedia promises not yet settled
    recorders,           \* every MediaRecorder created, with its stream
    orphanStreams,       \* granted streams for which no recorder exists
    uploads,             \* /voice/upload-sample/ fetches in flight
    recordingResult,     \* #recordingResult (showRecordingResult)
    setupUI,             \* record button class, status text, timer display
    reloadTimer,         \* the setTimeout of the reload is pending
    now,                 \* Date.now(), in milliseconds
    fileJobs,            \* chat page: every handleFileUpload call
    fileRequests,        \* chat page: /upload-sample/ fetches in flight
    currentStep,         \* onboarding: let currentStep
    shownStep,           \* onboarding: the step with class 'active'
    selectedFiles,       \* onboarding: let selectedFiles
    uploadBtnDisabled,   \* onboarding: #uploadBtn.disabled
    wizardUploads,       \* onboarding: uploadFiles calls not yet finished
    summary,             \* onboarding: #onboardingSummary
    alerts               \* onboarding: text of the newest alert()

convVars == <<recognition, recState, isRecording, isPressed,
              conversationHistory, status, waveform, asks, audioPlayer>>
chatVars == <<inputValue, chatMessages, noteTimers, synth, synthSupported,
              voiceTimers, lastSystem>>
fileVars == <<fileJobs, fileRequests>>
wizardVars == <<currentStep, shownStep, selectedFiles, uploadBtnDisabled,
                wizardUploads, summary, alerts>>
\* what no handler of the voice, public and chat conversations writes
envVars == <<page, cap, mimeSupport, fileVars, wizardVars>>
pageVars == <<envVars, boot, navigation, shown, profilePending>>
setupVars == <<isRecordingSetup, setupPressed, mediaRecorder, audioChunks,
               recordingStartTime, recordingTimer, intervals, gumPending,
               recorders, orphanStreams, uploads, recordingResult, setupUI,
               reloadTimer, now>>
vars == <<pageVars, convVars, chatVars, setupVars, scenario>>

\* The controller fields the recording functions read and write.
Ctl == [isRecording |-> isRecording, status |-> status,
        waveform |-> waveform, recState |-> recState]

\* updateStatus(text, type)
updateStatus(c, text, type) == [c EXCEPT !.status = Status(text, type)]

\* setWaveformState(state)
setWaveformState(c, state) == [c EXCEPT !.waveform = state]

\* SpeechRecognition.stop(): an active session is asked to finish.
RecognizerStop(rs) == IF rs = "listening" THEN "stopping" ELSE rs

\* stopRecording() of voice.js
stopRecording(c) ==
    IF ~c.isRecording THEN c
    ELSE LET c1 == [c EXCEPT !.isRecording = FALSE,
                             !.recState = IF recognition
                                          THEN RecognizerStop(c.recState)
                                          ELSE c.recState]
         IN  updateStatus(setWaveformState(c1, "processing"),
                          "Processing...", "processing")

\* startRecording() of voice.js.  recognition.start() throws
\* InvalidStateError when the recognizer has not ended yet.
startRecording(c) ==
    IF ~recognition \/ c.isRecording THEN c
    ELSE LET c1 == updateStatus(
                     setWaveformState([c EXCEPT !.isRecording = TRUE],
                                      "listening"),
                     "Listening...", "listening")
         IN  IF c1.recState = "idle"
             THEN [c1 EXCEPT !.recState = "listening"]
             ELSE stopRecording(c1)

SetCtl(c) ==
    /\ isRecording' = c.isRecording
    /\ status' = c.status
    /\ waveform' = c.waveform
    /\ recState' = c.recState

Live == navigation = Null /\ boot = "ready"

Ready == Status("Ready to listen", "ready")

RemoveAt(seq, i) == SubSeq(seq, 1, i - 1) \o SubSeq(seq, i + 1, Len(seq))

\* the success flag of the answer is not looked at
IsSuccessWithoutFlag(r) == r.net /\ r.ok /\ r.json

\* response.ok, a body that parses, and data.success
IsSuccess(r) == r.net /\ r.ok /\ r.json /\ r.success

\* Room for one more exchange: its user turn now and, for every request
\* then in flight, an assistant turn later.
CanSendWith(h) == /\ Len(asks) < MaxInFlight
                  /\ Len(h) + Len(asks) + 2 <= cap

CanSend == CanSendWith(conversationHistory)

Request(url, credentials, key, text, history) ==
    [url |-> url, credentials |-> credentials, key |-> key, text |-> text,
     conversation_history |-> history]

\* fetch(): the credentials mode of a request whose init has no credentials
\* member is same-origin.
CredentialsMode(req) ==
    IF req.credentials = Null THEN "same-origin" ELSE req.credentials

\* Every URL is API_BASE, '/api', followed by a path: a URL of the page's
\* own origin.
SameOrigin(url) ==
    url \in {"/api/voice/ask/", "/api/voice/public/SHARE_TOKEN/ask/",
             "/api/generate/", "window.API_BASE/voice/ask/",
             "/api/voice/upload-sample/"}

\* The browser attaches the session cookie of the origin to the request.
SendsSessionCookie(req) ==
    \/ CredentialsMode(req) = "include"
    \/ CredentialsMode(req) = "same-origin" /\ SameOrigin(req.url)

\* ------------------------------------------------- voice page: conversation
OnVoicePage == Live /\ page = "voice"

\* a press handler that starts a recording whether or not one is under way
VoicePressRestarts ==
    /\ OnVoicePage /\ shown = "conversation" /\ recognition
    /\ LET c1 == updateStatus(
                     setWaveformState([Ctl EXCEPT !.isRecording = TRUE],
                                      "listening"),
                     "Listening...", "listening")
       IN  SetCtl(IF c1.recState = "idle"
                  THEN [c1 EXCEPT !.recState = "listening"]
                  ELSE stopRecording(c1))
    /\ isPressed' = TRUE
    /\ UNCHANGED <<pageVars, chatVars, setupVars, recognition, conversationHistory,
                   asks, audioPlayer>>

\* mousedown / touchstart on #voiceRecordBtn
VoicePress ==
    /\ OnVoicePage /\ shown = "conversation" /\ recognition
    /\ IF ~isRecording
       THEN SetCtl(startRecording(Ctl)) /\ isPressed' = TRUE
       ELSE UNCHANGED <<isRecording, status, waveform, recState, isPressed>>
    /\ UNCHANGED <<pageVars, chatVars, setupVars, recognition, conversationHistory,
                   asks, audioPlayer>>

\* mouseup / mouseleave / touchend on #voiceRecordBtn
VoiceRelease ==
    /\ OnVoicePage /\ shown = "conversation" /\ recognition
    /\ IF isPressed /\ isRecording
       THEN SetCtl(stopRecording(Ctl)) /\ isPressed' = FALSE
       ELSE UNCHANGED <<isRecording, status, waveform, recState, isPressed>>
    /\ UNCHANGED <<pageVars, chatVars, setupVars, recognition, conversationHistory,
                   asks, audioPlayer>>

\* a handleVoiceInput that abandons the requests still in flight
handleVoiceInputCancelsEarlier(text) ==
    IF IsBlank(text)
    THEN /\ waveform' = ""
         /\ status' = Ready
         /\ UNCHANGED <<conversationHistory, asks>>
    ELSE /\ CanSend
         /\ conversationHistory' =
                Append(conversationHistory, Turn("user", text))
         /\ waveform' = "processing"
         /\ status' = Status("Getting response...", "processing")
         /\ asks' = <<Request("/api/voice/ask/", "include", "text", text,
                              ContextWindow(conversationHistory'))>>

\* a handleVoiceInput that takes the window before it appends the user turn
handleVoiceInputWindowFirst(text) ==
    IF IsBlank(text)
    THEN /\ waveform' = ""
         /\ status' = Ready
         /\ UNCHANGED <<conversationHistory, asks>>
    ELSE /\ CanSend
         /\ conversationHistory' =
                Append(conversationHistory, Turn("user", text))
         /\ waveform' = "processing"
         /\ status' = Status("Getting response...", "processing")
         /\ asks' = Append(asks,
                Request("/api/voice/ask/", "include", "text", text,
                        ContextWindow(conversationHistory)))

\* handleVoiceInput(text) of voice.js up to its first await (340-364)
handleVoiceInput(text) ==
    IF IsBlank(text)
    THEN /\ waveform' = ""
         /\ status' = Ready
         /\ UNCHANGED <<conversationHistory, asks>>
    ELSE /\ CanSend
         /\ conversationHistory' =
                Append(conversationHistory, Turn("user", text))
         /\ waveform' = "processing"
         /\ status' = Status("Getting response...", "processing")
         /\ asks' = Append(asks,
                Request("/api/voice/ask/", "include", "text", text,
                        ContextWindow(conversationHistory')))

\* recognition.onresult
VoiceResult(text) ==
    /\ OnVoicePage /\ recState \in {"listening", "stopping"}
    /\ recState' = "ending"
    /\ handleVoiceInput(text)
    /\ UNCHANGED <<pageVars, chatVars, setupVars, recognition, isRecording, isPressed,
                   audioPlayer>>

\* an onerror handler that shows the error without stopping the recording
VoiceRecognitionErrorKeepsRecording(err) ==
    /\ OnVoicePage /\ recState \in {"listening", "stopping"}
    /\ SetCtl(updateStatus([Ctl EXCEPT !.recState = "ending"],
                           "Error: " \o err, "error"))
    /\ UNCHANGED <<pageVars, chatVars, setupVars, recognition, isPressed,
                   conversationHistory, asks, audioPlayer>>

\* recognition.onerror
VoiceRecognitionError(err) ==
    /\ OnVoicePage /\ recState \in {"listening", "stopping"}
    /\ SetCtl(updateStatus(stopRecording([Ctl EXCEPT !.recState = "ending"]),
                           "Error: " \o err, "error"))
    /\ UNCHANGED <<pageVars, chatVars, setupVars, recognition, isPressed,
                   conversationHistory, asks, audioPlayer>>

\* recognition.onend
VoiceRecognitionEnd ==
    /\ OnVoicePage /\ recState # "idle"
    /\ SetCtl(stopRecording([Ctl EXCEPT !.recState = "idle"]))
    /\ UNCHANGED <<pageVars, chatVars, setupVars, recognition, isPressed,
                   conversationHistory, asks, audioPlayer>>

\* playAudio(audioUrl) of voice.js, called with the status already set to
\* Speaking.  Assigning src while an earlier play() promise is pending rejects
\* that promise (AbortError): its catch handler and the catch of the
\* handleVoiceInput awaiting it run before the next task.
playAudio(url) ==
    /\ audioPlayer' = [src |-> url, state |-> "starting"]
    /\ IF audioPlayer.state = "starting"
       THEN /\ waveform' = ""
            /\ status' = Status("Error: The play() request was interrupted",
                                "error")
       ELSE /\ waveform' = "active"
            /\ status' = Status("Speaking...", "speaking")

\* a response handler that sends the request again when it failed
VoiceAskSettleRetries(i, r) ==
    /\ OnVoicePage /\ i \in 1..Len(asks)
    /\ asks' = IF IsSuccess(r) THEN RemoveAt(asks, i)
               ELSE Append(RemoveAt(asks, i), asks[i])
    /\ IF IsSuccess(r)
       THEN /\ conversationHistory' =
                   Append(conversationHistory,
                          Turn("assistant", r.response_text))
            /\ IF Truthy(r.audio_url)
               THEN playAudio(r.audio_url)
               ELSE /\ waveform' = ""
                    /\ status' = Ready
                    /\ UNCHANGED audioPlayer
       ELSE /\ waveform' = ""
            /\ status' = Status("Error: " \o AskErrorMessage(r), "error")
            /\ UNCHANGED <<conversationHistory, audioPlayer>>
    /\ UNCHANGED <<pageVars, chatVars, setupVars, recognition, recState, isRecording,
                   isPressed>>

\* handleVoiceInput of voice.js after the fetch settles (366-393)
VoiceAskSettle(i, r) ==
    /\ OnVoicePage /\ i \in 1..Len(asks)
    /\ asks' = RemoveAt(asks, i)
    /\ IF IsSuccess(r)
       THEN /\ conversationHistory' =
                   Append(conversationHistory,
                          Turn("assistant", r.response_text))
            /\ IF Truthy(r.audio_url)
               THEN playAudio(r.audio_url)
               ELSE /\ waveform' = ""
                    /\ status' = Ready
                    /\ UNCHANGED audioPlayer
       ELSE /\ waveform' = ""
            /\ status' = Status("Error: " \o AskErrorMessage(r), "error")
            /\ UNCHANGED <<conversationHistory, audioPlayer>>
    /\ UNCHANGED <<pageVars, chatVars, setupVars, recognition, recState, isRecording,
                   isPressed>>

\* play() promise of the current playback resolves: no handler is attached.
VoicePlayStarted ==
    /\ OnVoicePage /\ audioPlayer.state = "starting"
    /\ audioPlayer' = [audioPlayer EXCEPT !.state = "playing"]
    /\ UNCHANGED <<pageVars, chatVars, setupVars, recognition, recState, isRecording,
                   isPressed, conversationHistory, status, waveform, asks>>

\* audioPlayer.play().catch(...) then the catch of handleVoiceInput
VoicePlayRejected ==
    /\ OnVoicePage /\ audioPlayer.state = "starting"
    /\ audioPlayer' = [audioPlayer EXCEPT !.state = "idle"]
    /\ waveform' = ""
    /\ status' = Status("Error: play() failed", "error")
    /\ UNCHANGED <<pageVars, chatVars, setupVars, recognition, recState, isRecording,
                   isPressed, conversationHistory, asks>>

\* an onended handler that leaves the display as it is
VoiceAudioEndedSilently ==
    /\ OnVoicePage /\ audioPlayer.state = "playing"
    /\ audioPlayer' = [audioPlayer EXCEPT !.state = "idle"]
    /\ UNCHANGED <<pageVars, chatVars, setupVars, recognition, recState, isRecording,
                   isPressed, conversationHistory, asks, waveform, status>>

\* audioPlayer.onended
VoiceAudioEnded ==
    /\ OnVoicePage /\ audioPlayer.state = "playing"
    /\ audioPlayer' = [audioPlayer EXCEPT !.state = "idle"]
    /\ waveform' = ""
    /\ status' = Ready
    /\ UNCHANGED <<pageVars, chatVars, setupVars, recognition, recState, isRecording,
                   isPressed, conversationHistory, asks>>

\* audioPlayer.onerror.  While play() is still pending the rejection of its
\* promise is handled first and the error event last; once playing, the
\* event's reject(e) reaches the catch of handleVoiceInput (e.message is
\* undefined for an Event).
VoiceAudioError ==
    /\ OnVoicePage /\ audioPlayer.state \in {"starting", "playing"}
    /\ audioPlayer' = [audioPlayer EXCEPT !.state = "idle"]
    /\ waveform' = ""
    /\ status' = IF audioPlayer.state = "starting"
                 THEN Status("Error playing audio", "error")
                 ELSE Status("Error: undefined", "error")
    /\ UNCHANGED <<pageVars, chatVars, setupVars, recognition, recState, isRecording,
                   isPressed, conversationHistory, asks>>

\* ----------------------------------------------------- voice page: start-up
\* What GET /api/auth/user/ can answer.
AuthResponses ==
    { [net |-> FALSE, ok |-> FALSE, json |-> FALSE, authenticated |-> FALSE],
      [net |-> TRUE, ok |-> FALSE, json |-> TRUE, authenticated |-> FALSE],
      [net |-> TRUE, ok |-> TRUE, json |-> FALSE, authenticated |-> FALSE],
      [net |-> TRUE, ok |-> TRUE, json |-> TRUE, authenticated |-> FALSE],
      [net |-> TRUE, ok |-> TRUE, json |-> TRUE, authenticated |-> TRUE] }

\* checkAuth(): TRUE when it neither throws nor takes the else branch.
AuthPassed(r) == r.net /\ r.ok /\ r.json /\ r.authenticated

\* the start-up as it would be if checkAuth() rejected on a failure: the
\* .catch of the DOMContentLoaded handler redirects and the .then callback
\* never runs
VoiceAuthSettleRejecting(r, supported) ==
    /\ page = "voice" /\ boot = "auth" /\ navigation = Null
    /\ navigation' = IF AuthPassed(r) THEN Null ELSE "/login/"
    /\ profilePending' = AuthPassed(r)
    /\ recognition' = (AuthPassed(r) /\ supported)
    /\ boot' = IF AuthPassed(r) THEN "ready" ELSE "dead"
    /\ UNCHANGED <<envVars, shown, chatVars, setupVars, recState, isRecording, isPressed,
                   conversationHistory, status, waveform, asks, audioPlayer>>

\* checkAuth() settles, then the .then callback of the DOMContentLoaded
\* handler runs: loadVoiceProfile(), initializeVoiceRecognition(),
\* setupEventListeners().  supported: the browser has SpeechRecognition.
VoiceAuthSettle(r, supported) ==
    /\ page = "voice" /\ boot = "auth" /\ navigation = Null
    /\ navigation' = IF AuthPassed(r) THEN Null ELSE "/login/"
    /\ profilePending' = TRUE
    /\ recognition' = supported
    /\ boot' = "ready"
    /\ UNCHANGED <<envVars, shown, chatVars, setupVars, recState, isRecording, isPressed,
                   conversationHistory, status, waveform, asks, audioPlayer>>

\* What GET /api/voice/profile/ can answer.
ProfileResponses ==
    { [net |-> FALSE, ok |-> FALSE, json |-> FALSE, is_active |-> Null],
      [net |-> TRUE, ok |-> FALSE, json |-> TRUE, is_active |-> Null],
      [net |-> TRUE, ok |-> FALSE, json |-> TRUE, is_active |-> "true"],
      [net |-> TRUE, ok |-> TRUE, json |-> FALSE, is_active |-> Null] }
    \cup { [net |-> TRUE, ok |-> TRUE, json |-> TRUE, is_active |-> a] :
             a \in {"true", "truthy", "false", Null} }

\* any truthy is_active counts as active
ProfileActiveTruthy(r) ==
    r.net /\ r.ok /\ r.json /\ r.is_active \in {"true", "truthy"}

\* data.is_active === true
ProfileActive(r) == r.net /\ r.ok /\ r.json /\ r.is_active = "true"

\* The style.display loadVoiceProfile gives the two sections (110-132).
SectionDisplay(showSetup) ==
    [voiceSetup |-> IF showSetup THEN "flex" ELSE "none",
     voiceConversation |-> IF showSetup THEN "none" ELSE "flex"]

\* The section the user sees for the display styles d.
Displayed(d) ==
    IF d.voiceSetup # "none" /\ d.voiceConversation # "none" THEN "both"
    ELSE IF d.voiceSetup # "none" THEN "setup"
    ELSE IF d.voiceConversation # "none" THEN "conversation"
    ELSE "none"

\* loadVoiceProfile() after its fetch settles
VoiceProfileSettle(r) ==
    /\ OnVoicePage /\ profilePending
    /\ profilePending' = FALSE
    /\ shown' = Displayed(SectionDisplay(~ProfileActive(r)))
    /\ UNCHANGED <<envVars, boot, navigation, convVars, chatVars, setupVars>>

\* ------------------------------------------------ voice page: setup capture
Result(text, type) == [text |-> text, type |-> type]

\* The MIME types MediaRecorder.isTypeSupported can accept in a browser.
MimeSupports ==
    { {"audio/webm;codecs=opus", "audio/webm", "audio/mp4"},
      {"audio/webm"}, {"audio/mp4"}, {} }

\* The ordered preference list of startSetupRecording (490-497)
ChooseMimeType(supported) ==
    IF "audio/webm;codecs=opus" \in supported THEN "audio/webm;codecs=opus"
    ELSE IF "audio/webm" \in supported THEN "audio/webm"
    ELSE IF "audio/mp4" \in supported THEN "audio/mp4"
    ELSE "audio/webm"

\* The setup fields startSetupRecording, stopSetupRecording and
\* resetRecordingUI read and write.
Setup == [isRecordingSetup |-> isRecordingSetup,
          mediaRecorder |-> mediaRecorder,
          audioChunks |-> audioChunks,
          recordingStartTime |-> recordingStartTime,
          recordingTimer |-> recordingTimer,
          intervals |-> intervals,
          recorders |-> recorders,
          orphanStreams |-> orphanStreams,
          uploads |-> uploads,
          recordingResult |-> recordingResult,
          setupUI |-> setupUI]

SetSetup(s) ==
    /\ isRecordingSetup' = s.isRecordingSetup
    /\ mediaRecorder' = s.mediaRecorder
    /\ audioChunks' = s.audioChunks
    /\ recordingStartTime' = s.recordingStartTime
    /\ recordingTimer' = s.recordingTimer
    /\ intervals' = s.intervals
    /\ recorders' = s.recorders
    /\ orphanStreams' = s.orphanStreams
    /\ uploads' = s.uploads
    /\ recordingResult' = s.recordingResult
    /\ setupUI' = s.setupUI

\* showRecordingResult(message, type)
showRecordingResult(s, text, type) ==
    [s EXCEPT !.recordingResult = Result(text, type)]

\* resetRecordingUI()
resetRecordingUI(s) ==
    [s EXCEPT !.setupUI = [recording |-> FALSE, text |-> "Ready to record",
                           timer |-> FALSE],
              !.isRecordingSetup = FALSE]

\* MediaRecorder.stop(): the recorder becomes inactive at once; its last
\* dataavailable event and its stop event are delivered later.
RecorderStop(rec) == [rec EXCEPT !.phase = "flushing"]

\* stopSetupRecording()
stopSetupRecording(s) ==
    IF ~s.isRecordingSetup THEN s
    ELSE LET m == s.mediaRecorder
             s1 == IF m # 0 /\ s.recorders[m].phase = "recording"
                   THEN [s EXCEPT !.recorders[m] = RecorderStop(@)]
                   ELSE s
             s2 == [s1 EXCEPT !.isRecordingSetup = FALSE]
             s3 == IF s2.recordingTimer # 0
                   THEN [s2 EXCEPT !.intervals = @ \ {s2.recordingTimer},
                                   !.recordingTimer = 0]
                   ELSE s2
         IN  [s3 EXCEPT !.setupUI.recording = FALSE,
                        !.setupUI.text = "Processing..."]

\* mousedown / touchstart on #recordBtn.  startSetupRecording() runs up to
\* its await of getUserMedia (475-486).
SetupPress ==
    /\ OnVoicePage /\ shown = "setup"
    /\ IF ~isRecordingSetup
       THEN /\ Len(recorders) + orphanStreams + gumPending < MaxRecorders
            /\ gumPending' = gumPending + 1
            /\ setupPressed' = TRUE
       ELSE UNCHANGED <<gumPending, setupPressed>>
    /\ UNCHANGED <<pageVars, convVars, chatVars, isRecordingSetup,
                   mediaRecorder, audioChunks, recordingStartTime,
                   recordingTimer, intervals, recorders, orphanStreams,
                   uploads, recordingResult, setupUI, reloadTimer, now>>

\* mouseup / mouseleave / touchend on #recordBtn
SetupRelease ==
    /\ OnVoicePage /\ shown = "setup"
    /\ IF setupPressed /\ isRecordingSetup
       THEN SetSetup(stopSetupRecording(Setup)) /\ setupPressed' = FALSE
       ELSE UNCHANGED <<isRecordingSetup, mediaRecorder, audioChunks,
                        recordingStartTime, recordingTimer, intervals,
                        recorders, orphanStreams, uploads, recordingResult,
                        setupUI, setupPressed>>
    /\ UNCHANGED <<pageVars, convVars, chatVars, gumPending, reloadTimer, now>>

\* The browser's MediaRecorder capabilities are not known to the model
\* until the first recorder is constructed.
MimeUnknown == {"?"}

\* new MediaRecorder(stream, {mimeType}) throws NotSupportedError for a MIME
\* type the browser does not take.
ConstructorThrows(supported) == ChooseMimeType(supported) \notin supported

NewRecorder(supported) ==
    [phase |-> "recording", stream |-> "live",
     mime |-> ChooseMimeType(supported), startedAt |-> now, own |-> 0]

\* a startSetupRecording whose catch shows nothing
startSetupRecordingResumeSilent(granted, supported) ==
    IF ~granted
    THEN Setup
    ELSE IF ConstructorThrows(supported)
    THEN resetRecordingUI(showRecordingResult(
             [Setup EXCEPT !.orphanStreams = @ + 1],
             "Error accessing microphone. NotSupportedError", "error"))
    ELSE LET r == Len(recorders) + 1
         IN  [Setup EXCEPT
                !.recorders = Append(@, NewRecorder(supported)),
                !.mediaRecorder = r,
                !.audioChunks = <<>>,
                !.isRecordingSetup = TRUE,
                !.recordingStartTime = now,
                !.setupUI = [recording |-> TRUE, text |-> "Recording...",
                             timer |-> TRUE],
                !.recordingTimer = r,
                !.intervals = @ \cup {r}]

\* startSetupRecording() after getUserMedia settles (486-598), in a browser
\* whose MediaRecorder takes the MIME types supported
startSetupRecordingResume(granted, supported) ==
    IF ~granted
    THEN resetRecordingUI(showRecordingResult(Setup,
             "Error accessing microphone. Please allow microphone permissions in your browser settings.",
             "error"))
    ELSE IF ConstructorThrows(supported)
    THEN resetRecordingUI(showRecordingResult(
             [Setup EXCEPT !.orphanStreams = @ + 1],
             "Error accessing microphone. NotSupportedError", "error"))
    ELSE LET r == Len(recorders) + 1
         IN  [Setup EXCEPT
                !.recorders = Append(@, NewRecorder(supported)),
                !.mediaRecorder = r,
                !.audioChunks = <<>>,
                !.isRecordingSetup = TRUE,
                !.recordingStartTime = now,
                !.setupUI = [recording |-> TRUE, text |-> "Recording...",
                             timer |-> TRUE],
                !.recordingTimer = r,
                !.intervals = @ \cup {r}]

\* the getUserMedia promise settles
GetUserMediaSettle(granted, supported) ==
    /\ OnVoicePage /\ gumPending > 0
    /\ IF granted
       THEN /\ mimeSupport \in {MimeUnknown, supported}
            /\ mimeSupport' = supported
       ELSE /\ supported = {}
            /\ mimeSupport' = mimeSupport
    /\ gumPending' = gumPending - 1
    /\ SetSetup(startSetupRecordingResume(granted, supported))
    /\ UNCHANGED <<page, cap, fileVars, wizardVars, boot, navigation, shown,
                   profilePending, convVars, chatVars, setupPressed,
                   reloadTimer, now>>

\* mediaRecorder.ondataavailable: a time slice while recording, or the last
\* data of a recorder that was stopped.
RecorderData(r, size) ==
    /\ OnVoicePage /\ r \in 1..Len(recorders)
    /\ \/ recorders[r].phase = "recording" /\ recorders[r].own < MaxChunks
       \/ recorders[r].phase = "flushing"
    /\ recorders' = [recorders EXCEPT
           ![r].phase = IF @ = "flushing" THEN "stopping" ELSE @,
           ![r].own = IF size > 0 THEN @ + 1 ELSE @]
    /\ audioChunks' = IF size > 0
                      THEN Append(audioChunks,
                                  [rec |-> r, n |-> recorders[r].own + 1])
                      ELSE audioChunks
    /\ UNCHANGED <<pageVars, convVars, chatVars, isRecordingSetup,
                   setupPressed, mediaRecorder, recordingStartTime,
                   recordingTimer, intervals, gumPending, orphanStreams,
                   uploads, recordingResult, setupUI, reloadTimer, now>>

\* Math.round(ms / 1000)
RoundSeconds(ms) == (ms + 500) \div 1000

\* a minimum of 3 seconds instead of 30
TooShortBelowThree(ms) == ms < 3 * 1000

\* actualDuration < 30, with actualDuration = ms / 1000
TooShort(ms) == ms < MinRecordingSeconds * 1000

\* uploadRecording(audioBlob) up to its await of fetch (710-727)
uploadRecording(s, blob) ==
    [s EXCEPT !.setupUI.text = "Uploading and creating voice clone...",
              !.uploads = Append(@, [name |-> "voice-sample.webm",
                                     type |-> "audio/webm",
                                     blob |-> blob,
                                     credentials |-> "include"])]

\* mediaRecorder.onstop of recorder r (520-542)
onstop(s, r) ==
    LET s1 == [s EXCEPT !.recorders[r].stream = "stopped"]
        actualMs == now - s.recordingStartTime
        audioBlob == [parts |-> s.audioChunks, type |-> s.recorders[r].mime]
    IN  IF TooShort(actualMs)
        THEN resetRecordingUI(showRecordingResult(s1,
                 "Recording too short (" \o ToString(RoundSeconds(actualMs))
                     \o "s). Please record at least 30 seconds.",
                 "error"))
        ELSE uploadRecording(s1, audioBlob)

\* the stop event of recorder r is delivered
RecorderStopEvent(r) ==
    /\ OnVoicePage /\ r \in 1..Len(recorders)
    /\ recorders[r].phase = "stopping"
    /\ SetSetup(onstop([Setup EXCEPT !.recorders[r].phase = "done"], r))
    /\ UNCHANGED <<pageVars, convVars, chatVars, setupPressed, gumPending,
                   reloadTimer, now>>

\* mediaRecorder.onerror of recorder r: the browser has made the recorder
\* inactive before it fires the event (514-518).
RecorderError(r) ==
    /\ OnVoicePage /\ r \in 1..Len(recorders)
    /\ recorders[r].phase = "recording"
    /\ SetSetup(stopSetupRecording(showRecordingResult(
           [Setup EXCEPT !.recorders[r].phase = "flushing"],
           "Recording error: encoder failed", "error")))
    /\ UNCHANGED <<pageVars, convVars, chatVars, setupPressed, gumPending,
                   reloadTimer, now>>

\* What POST /api/voice/upload-sample/ can answer.
UploadResponses ==
    { [net |-> FALSE, ok |-> FALSE, json |-> FALSE, success |-> FALSE,
       error |-> Null],
      [net |-> TRUE, ok |-> FALSE, json |-> FALSE, success |-> FALSE,
       error |-> Null],
      [net |-> TRUE, ok |-> TRUE, json |-> TRUE, success |-> TRUE,
       error |-> Null] }
    \cup { [net |-> TRUE, ok |-> o, json |-> TRUE, success |-> FALSE,
            error |-> e] : o \in BOOLEAN, e \in ErrorFields }

\* error.message of the exception uploadRecording throws (729-744)
UploadErrorMessage(r) ==
    IF ~r.net THEN "Failed to fetch"
    ELSE IF ~r.json THEN "Unexpected token"
    ELSE IF ~r.ok THEN OrElse(r.error, "Upload failed")
    ELSE OrElse(r.error, "Failed to create voice clone")

\* an upload handler that reloads the page after a failure as well
UploadSettleAlwaysReloads(i, r) ==
    /\ OnVoicePage /\ i \in 1..Len(uploads)
    /\ uploads' = RemoveAt(uploads, i)
    /\ IF IsSuccess(r)
       THEN /\ recordingResult' =
                   Result("Voice clone created successfully! Reloading...",
                          "success")
            /\ setupUI' = [setupUI EXCEPT !.text = "Success!"]
       ELSE /\ recordingResult' = Result(UploadErrorMessage(r), "error")
            /\ setupUI' = [setupUI EXCEPT !.text = "Ready to record"]
    /\ reloadTimer' = TRUE
    /\ UNCHANGED <<pageVars, convVars, chatVars, isRecordingSetup,
                   setupPressed, mediaRecorder, audioChunks,
                   recordingStartTime, recordingTimer, intervals, gumPending,
                   recorders, orphanStreams, now>>

\* uploadRecording after its fetch settles (729-750)
UploadSettle(i, r) ==
    /\ OnVoicePage /\ i \in 1..Len(uploads)
    /\ uploads' = RemoveAt(uploads, i)
    /\ IF IsSuccess(r)
       THEN /\ recordingResult' =
                   Result("Voice clone created successfully! Reloading...",
                          "success")
            /\ setupUI' = [setupUI EXCEPT !.text = "Success!"]
            /\ reloadTimer' = TRUE
       ELSE /\ recordingResult' = Result(UploadErrorMessage(r), "error")
            /\ setupUI' = [setupUI EXCEPT !.text = "Ready to record"]
            /\ UNCHANGED reloadTimer
    /\ UNCHANGED <<pageVars, convVars, chatVars, isRecordingSetup,
                   setupPressed, mediaRecorder, audioChunks,
                   recordingStartTime, recordingTimer, intervals, gumPending,
                   recorders, orphanStreams, now>>

\* setTimeout(() => window.location.reload(), 2000) fires
ReloadFire ==
    /\ OnVoicePage /\ reloadTimer
    /\ reloadTimer' = FALSE
    /\ navigation' = "reload"
    /\ UNCHANGED <<envVars, boot, shown, profilePending, convVars,
                   chatVars, isRecordingSetup, setupPressed, mediaRecorder,
                   audioChunks, recordingStartTime, recordingTimer, intervals,
                   gumPending, recorders, orphanStreams, uploads,
                   recordingResult, setupUI, now>>

\* The wall clock advances.  Date.now() is read only relative to
\* recordingStartTime, so the clock is explored while a recorder that has
\* not yet delivered its stop event exists.
Tick ==
    /\ OnVoicePage
    /\ \E r \in 1..Len(recorders) : recorders[r].phase # "done"
    /\ now + TickMs <= MaxTicks * TickMs
    /\ now' = now + TickMs
    /\ UNCHANGED <<pageVars, convVars, chatVars, isRecordingSetup,
                   setupPressed, mediaRecorder, audioChunks,
                   recordingStartTime, recordingTimer, intervals, gumPending,
                   recorders, orphanStreams, uploads, recordingResult,
                   setupUI, reloadTimer>>

\* -------------------------------------------------------- public voice page
OnPublicPage == Live /\ page = "public"

\* stopRecording() of the public voice script
stopRecordingPublic(c) ==
    IF ~c.isRecording THEN c
    ELSE LET c1 == updateStatus(
                     setWaveformState([c EXCEPT !.isRecording = FALSE],
                                      "processing"),
                     "Processing...", "processing")
         IN  [c1 EXCEPT !.recState = IF recognition
                                     THEN RecognizerStop(c1.recState)
                                     ELSE c1.recState]

\* startRecording() of the public voice script
startRecordingPublic(c) ==
    IF ~recognition \/ c.isRecording THEN c
    ELSE LET c1 == updateStatus(
                     setWaveformState([c EXCEPT !.isRecording = TRUE],
                                      "listening"),
                     "Listening...", "listening")
         IN  IF c1.recState = "idle"
             THEN [c1 EXCEPT !.recState = "listening"]
             ELSE stopRecordingPublic(c1)

\* The script runs, then DOMContentLoaded: initializeVoiceRecognition() and
\* setupEventListeners().  The first statement of the script reads the const
\* SHARE_TOKEN inside its own initializer, which throws unless the page
\* delivers the script in a form where that binding can be read (scriptOk).
\* With an empty token the body is replaced before the elements are looked
\* up, so no listener is attached.
PublicLoaded(scriptOk, token, supported) ==
    /\ page = "public" /\ boot = "loading" /\ navigation = Null
    /\ IF scriptOk /\ token # ""
       THEN /\ boot' = "ready"
            /\ recognition' = supported
            /\ status' = IF supported THEN status
                         ELSE Status("Voice input not supported", "error")
       ELSE /\ boot' = "dead"
            /\ UNCHANGED <<recognition, status>>
    /\ UNCHANGED <<envVars, navigation, shown, profilePending,
                   chatVars, setupVars, recState, isRecording, isPressed,
                   conversationHistory, waveform, asks, audioPlayer>>

\* mousedown / touchstart on #voiceRecordBtn
PublicPress ==
    /\ OnPublicPage /\ recognition
    /\ IF ~isRecording
       THEN SetCtl(startRecordingPublic(Ctl)) /\ isPressed' = TRUE
       ELSE UNCHANGED <<isRecording, status, waveform, recState, isPressed>>
    /\ UNCHANGED <<pageVars, chatVars, setupVars, recognition,
                   conversationHistory, asks, audioPlayer>>

\* mouseup / mouseleave / touchend on #voiceRecordBtn
PublicRelease ==
    /\ OnPublicPage /\ recognition
    /\ IF isPressed /\ isRecording
       THEN SetCtl(stopRecordingPublic(Ctl)) /\ isPressed' = FALSE
       ELSE UNCHANGED <<isRecording, status, waveform, recState, isPressed>>
    /\ UNCHANGED <<pageVars, chatVars, setupVars, recognition,
                   conversationHistory, asks, audioPlayer>>

\* handleVoiceInput(text) of the public voice script up to its await
handleVoiceInputPublic(text) ==
    IF IsBlank(text)
    THEN /\ waveform' = ""
         /\ status' = Ready
         /\ UNCHANGED <<conversationHistory, asks>>
    ELSE /\ CanSend
         /\ conversationHistory' =
                Append(conversationHistory, Turn("user", text))
         /\ waveform' = "processing"
         /\ status' = Status("Getting response...", "processing")
         /\ asks' = Append(asks,
                Request("/api/voice/public/SHARE_TOKEN/ask/", Null, "text",
                        text, ContextWindow(conversationHistory')))

\* recognition.onresult
PublicResult(text) ==
    /\ OnPublicPage /\ recState \in {"listening", "stopping"}
    /\ recState' = "ending"
    /\ handleVoiceInputPublic(text)
    /\ UNCHANGED <<pageVars, chatVars, setupVars, recognition, isRecording,
                   isPressed, audioPlayer>>

\* recognition.onerror
PublicRecognitionError(err) ==
    /\ OnPublicPage /\ recState \in {"listening", "stopping"}
    /\ SetCtl(updateStatus(
           stopRecordingPublic([Ctl EXCEPT !.recState = "ending"]),
           "Error: " \o err, "error"))
    /\ UNCHANGED <<pageVars, chatVars, setupVars, recognition, isPressed,
                   conversationHistory, asks, audioPlayer>>

\* recognition.onend
PublicRecognitionEnd ==
    /\ OnPublicPage /\ recState # "idle"
    /\ SetCtl(stopRecordingPublic([Ctl EXCEPT !.recState = "idle"]))
    /\ UNCHANGED <<pageVars, chatVars, setupVars, recognition, isPressed,
                   conversationHistory, asks, audioPlayer>>

\* playAudio(audioUrl) of the public voice script, not awaited.  A play()
\* promise still pending when src is assigned is rejected, and its catch
\* handler runs before the next task.
playAudioPublic(url) ==
    /\ audioPlayer' = [src |-> url, state |-> "starting"]
    /\ IF audioPlayer.state = "starting"
       THEN /\ waveform' = ""
            /\ status' = Status("Error playing audio", "error")
       ELSE /\ waveform' = "active"
            /\ status' = Status("Speaking...", "speaking")

\* handleVoiceInput of the public voice script after the fetch settles
PublicAskSettle(i, r) ==
    /\ OnPublicPage /\ i \in 1..Len(asks)
    /\ asks' = RemoveAt(asks, i)
    /\ IF IsSuccess(r)
       THEN /\ conversationHistory' =
                   Append(conversationHistory,
                          Turn("assistant", r.response_text))
            /\ IF Truthy(r.audio_url)
               THEN playAudioPublic(r.audio_url)
               ELSE /\ waveform' = ""
                    /\ status' = Ready
                    /\ UNCHANGED audioPlayer
       ELSE /\ waveform' = ""
            /\ status' = Status("Error: " \o AskErrorMessage(r), "error")
            /\ UNCHANGED <<conversationHistory, audioPlayer>>
    /\ UNCHANGED <<pageVars, chatVars, setupVars, recognition, recState,
                   isRecording, isPressed>>

\* the play() promise resolves, or audioPlayer.onended / onerror / the
\* play().catch handler runs
PublicPlayerEvent(ev) ==
    /\ OnPublicPage
    /\ \/ ev = "playing" /\ audioPlayer.state = "starting"
       \/ ev = "rejected" /\ audioPlayer.state = "starting"
       \/ ev = "ended" /\ audioPlayer.state = "playing"
       \/ ev = "error" /\ audioPlayer.state \in {"starting", "playing"}
    /\ audioPlayer' = [audioPlayer EXCEPT
           !.state = IF ev = "playing" THEN "playing" ELSE "idle"]
    /\ waveform' = IF ev = "playing" THEN waveform ELSE ""
    /\ status' = IF ev = "playing" THEN status
                 ELSE IF ev = "ended" THEN Ready
                 ELSE Status("Error playing audio", "error")
    /\ UNCHANGED <<pageVars, chatVars, setupVars, recognition, recState,
                   isRecording, isPressed, conversationHistory, asks>>

\* ---------------------------------------------------------------- chat page
OnChatPage == Live /\ page = "chat"

\* stopVoiceRecording()
stopVoiceRecording(c) ==
    IF ~c.isRecording THEN c
    ELSE [c EXCEPT !.isRecording = FALSE,
                   !.recState = IF recognition THEN RecognizerStop(c.recState)
                                ELSE c.recState]

\* startVoiceRecording()
startVoiceRecording(c) ==
    IF ~recognition THEN c
    ELSE IF c.isRecording THEN c
    ELSE LET c1 == [c EXCEPT !.isRecording = TRUE]
         IN  IF c1.recState = "idle"
             THEN [c1 EXCEPT !.recState = "listening"]
             ELSE stopVoiceRecording(c1)

\* checkAuth() of chat.js settles, then the .then callback of
\* initializeChat runs: setupEventListeners() (with
\* initializeVoiceRecognition()) and loadInitialMessage().
ChatAuthSettle(r, supported, speech) ==
    /\ page = "chat" /\ boot = "auth" /\ navigation = Null
    /\ navigation' = IF AuthPassed(r) THEN Null ELSE "/login/"
    /\ recognition' = supported
    /\ synthSupported' = speech
    /\ chatMessages' = Append(chatMessages, "welcome")
    /\ boot' = "ready"
    /\ UNCHANGED <<envVars, shown, profilePending, setupVars,
                   recState, isRecording, isPressed, conversationHistory,
                   status, waveform, asks, audioPlayer, inputValue,
                   noteTimers, synth, voiceTimers, lastSystem>>

\* the user edits #messageInput
ChatType(text) ==
    /\ OnChatPage
    /\ inputValue' = text
    /\ UNCHANGED <<pageVars, convVars, setupVars, chatMessages, noteTimers,
                   synth, synthSupported, voiceTimers, lastSystem>>

\* sendMessage() up to its await of fetch (145-186), on history h, agent
\* elements msgs and input value
sendMessage(h, msgs, value) ==
    LET text == Trim(value)
    IN  IF text = <<>>
        THEN /\ conversationHistory' = h
             /\ chatMessages' = msgs
             /\ inputValue' = value
             /\ UNCHANGED asks
        ELSE /\ CanSendWith(h)
             /\ conversationHistory' = Append(h, Turn("user", text))
             /\ chatMessages' = Append(msgs, "typing")
             /\ inputValue' = <<>>
             /\ asks' = Append(asks,
                    Request("/api/generate/", "include", "prompt", text,
                            ContextWindow(conversationHistory')))

\* click on #sendBtn, or Enter in #messageInput
ChatSend ==
    /\ OnChatPage
    /\ sendMessage(conversationHistory, chatMessages, inputValue)
    /\ UNCHANGED <<pageVars, setupVars, recognition, recState, isRecording,
                   isPressed, status, waveform, audioPlayer, noteTimers,
                   synth, synthSupported, voiceTimers, lastSystem>>

\* hideTypingIndicator(id): getElementById finds the first element with the
\* id 'typing-indicator'.
RECURSIVE hideTypingIndicator(_)
hideTypingIndicator(msgs) ==
    IF msgs = <<>> THEN <<>>
    ELSE IF Head(msgs) = "typing" THEN Tail(msgs)
    ELSE <<Head(msgs)>> \o hideTypingIndicator(Tail(msgs))

\* speechSynthesis.cancel(): every utterance is removed from the queue.
SynthCancel(queue) == <<>>

\* speechSynthesis.speak(utterance): the utterance joins the queue.
SynthSpeak(queue, text) == Append(queue, text)

\* a speakResponse that does not cancel
speakResponseWithoutCancel(queue, text) == SynthSpeak(queue, text)

\* speakResponse(text): cancel(), then speak().
speakResponse(queue, text) == SynthSpeak(SynthCancel(queue), text)

\* a sendMessage that stores a reply for a failure response as well
sendMessageResumeAlwaysReplies(r) ==
    /\ chatMessages' =
           IF r.net /\ r.ok /\ r.json /\ r.success
           THEN Append(hideTypingIndicator(chatMessages), "agent")
           ELSE hideTypingIndicator(chatMessages)
    /\ conversationHistory' =
           Append(conversationHistory, Turn("assistant", r.generated_content))
    /\ IF r.net /\ r.ok /\ r.json
       THEN IF r.success
            THEN /\ noteTimers' = IF r.memory_extracted THEN noteTimers + 1
                                  ELSE noteTimers
                 /\ UNCHANGED lastSystem
            ELSE /\ lastSystem' = "Error: " \o OrElse(r.error,
                                                     "Generation failed")
                 /\ UNCHANGED noteTimers
       ELSE /\ lastSystem' =
                   "Error: "
                   \o (IF ~r.net THEN "Failed to fetch"
                       ELSE IF ~r.ok THEN "HTTP 500: Internal Server Error"
                       ELSE "Unexpected token")
                   \o ". Please try again or check the console for details."
            /\ UNCHANGED noteTimers
    /\ UNCHANGED synth

\* sendMessage() after its fetch settles (188-219)
sendMessageResume(r) ==
    /\ chatMessages' =
           IF r.net /\ r.ok /\ r.json /\ r.success
           THEN Append(hideTypingIndicator(chatMessages), "agent")
           ELSE hideTypingIndicator(chatMessages)
    /\ IF r.net /\ r.ok /\ r.json
       THEN IF r.success
            THEN /\ conversationHistory' =
                        Append(conversationHistory,
                               Turn("assistant", r.generated_content))
                 /\ noteTimers' = IF r.memory_extracted THEN noteTimers + 1
                                  ELSE noteTimers
                 /\ UNCHANGED lastSystem
            ELSE /\ lastSystem' = "Error: " \o OrElse(r.error,
                                                     "Generation failed")
                 /\ UNCHANGED <<conversationHistory, noteTimers>>
       ELSE /\ lastSystem' =
                   "Error: "
                   \o (IF ~r.net THEN "Failed to fetch"
                       ELSE IF ~r.ok THEN "HTTP 500: Internal Server Error"
                       ELSE "Unexpected token")
                   \o ". Please try again or check the console for details."
            /\ UNCHANGED <<conversationHistory, noteTimers>>
    /\ UNCHANGED synth

\* sendVoiceMessage() after its fetch settles (607-639)
sendVoiceMessageResume(r) ==
    IF IsSuccess(r)
    THEN /\ conversationHistory' =
                Append(conversationHistory,
                       Turn("assistant", r.response_text))
         /\ chatMessages' = Append(hideTypingIndicator(chatMessages), "voice")
         /\ synth' = IF synthSupported
                     THEN speakResponse(synth, r.response_text)
                     ELSE synth
         /\ noteTimers' = IF r.memory_extracted THEN noteTimers + 1
                          ELSE noteTimers
         /\ UNCHANGED lastSystem
    ELSE /\ chatMessages' = hideTypingIndicator(chatMessages)
         /\ lastSystem' =
                "Error: "
                \o (IF ~r.net THEN "Failed to fetch"
                    ELSE IF ~r.ok THEN "HTTP 500: Internal Server Error"
                    ELSE IF ~r.json THEN "Unexpected token"
                    ELSE OrElse(r.error, "Failed to get response"))
         /\ UNCHANGED <<conversationHistory, synth, noteTimers>>

\* the fetch of sendMessage or of sendVoiceMessage settles
ChatAskSettle(i, r) ==
    /\ OnChatPage /\ i \in 1..Len(asks)
    /\ asks' = RemoveAt(asks, i)
    /\ IF asks[i].key = "prompt"
       THEN sendMessageResume(r)
       ELSE sendVoiceMessageResume(r)
    /\ UNCHANGED <<pageVars, setupVars, recognition, recState, isRecording,
                   isPressed, status, waveform, audioPlayer, inputValue,
                   synthSupported, voiceTimers>>

\* two pops instead of one
FrontTwice(seq) == SubSeq(seq, 1, Len(seq) - 2)

\* Array.prototype.pop / Element.remove of the last element: what is left
Front(seq) == SubSeq(seq, 1, Len(seq) - 1)

\* conversationHistory.filter(m => m.role === role).length
TurnsOf(h, role) == Cardinality({k \in 1..Len(h) : h[k].role = role})

\* conversationHistory.filter(m => m.role === 'user').pop(): the index of
\* the last user turn, 0 when there is none
LastUserIndex(h) ==
    LET users == {i \in 1..Len(h) : h[i].role = "user"}
    IN  IF users = {} THEN 0
        ELSE CHOOSE i \in users : \A j \in users : j <= i

\* regenerateMessage as it would be if it sent the stored content of the last
\* user turn as it is, without the trim of sendMessage
regenerateMessageUntrimmed ==
    /\ LET h == conversationHistory
           u == LastUserIndex(h)
           h1 == IF Len(h) > 0 /\ h[Len(h)].role = "assistant"
                 THEN Front(h) ELSE h
           msgs1 == IF Len(chatMessages) > 0 THEN Front(chatMessages)
                    ELSE chatMessages
       IN  IF u # 0
           THEN /\ CanSendWith(h1)
                /\ conversationHistory' =
                       Append(h1, Turn("user", h[u].content))
                /\ chatMessages' = Append(msgs1, "typing")
                /\ inputValue' = <<>>
                /\ asks' = Append(asks,
                       Request("/api/generate/", "include", "prompt",
                               h[u].content,
                               ContextWindow(conversationHistory')))
                /\ UNCHANGED lastSystem
           ELSE /\ lastSystem' = "No previous message to regenerate"
                /\ UNCHANGED <<conversationHistory, chatMessages, inputValue,
                               asks>>
    /\ UNCHANGED <<pageVars, setupVars, recognition, recState, isRecording,
                   isPressed, status, waveform, audioPlayer, noteTimers,
                   synth, synthSupported, voiceTimers>>

\* window.regenerateMessage() (394-420).  Every element kept in
\* chatMessages has the classes 'message agent'.
regenerateMessage ==
    /\ LET h == conversationHistory
           u == LastUserIndex(h)
           h1 == IF Len(h) > 0 /\ h[Len(h)].role = "assistant"
                 THEN Front(h) ELSE h
           msgs1 == IF Len(chatMessages) > 0 THEN Front(chatMessages)
                    ELSE chatMessages
       IN  IF u # 0
           THEN /\ sendMessage(h1, msgs1, h[u].content)
                /\ UNCHANGED lastSystem
           ELSE /\ lastSystem' = "No previous message to regenerate"
                /\ UNCHANGED <<conversationHistory, chatMessages, inputValue,
                               asks>>
    /\ UNCHANGED <<pageVars, setupVars, recognition, recState, isRecording,
                   isPressed, status, waveform, audioPlayer, noteTimers,
                   synth, synthSupported, voiceTimers>>

\* click on the Regenerate button of an agent message (addMessage with
\* showActions, 236-243)
ChatRegenerate ==
    /\ OnChatPage
    /\ \E k \in 1..Len(chatMessages) : chatMessages[k] = "agent"
    /\ regenerateMessage

\* window.regenerateMessage() called as the global function it is
RegenerateCall == OnChatPage /\ regenerateMessage

\* mousedown / touchstart on #voiceBtn
ChatPress ==
    /\ OnChatPage /\ recognition
    /\ IF ~isRecording
       THEN SetCtl(startVoiceRecording(Ctl)) /\ isPressed' = TRUE
       ELSE UNCHANGED <<isRecording, status, waveform, recState, isPressed>>
    /\ UNCHANGED <<pageVars, chatVars, setupVars, recognition,
                   conversationHistory, asks, audioPlayer>>

\* mouseup / mouseleave / touchend on #voiceBtn
ChatRelease ==
    /\ OnChatPage /\ recognition
    /\ IF isPressed /\ isRecording
       THEN SetCtl(stopVoiceRecording(Ctl)) /\ isPressed' = FALSE
       ELSE UNCHANGED <<isRecording, status, waveform, recState, isPressed>>
    /\ UNCHANGED <<pageVars, chatVars, setupVars, recognition,
                   conversationHistory, asks, audioPlayer>>

\* recognition.onresult of chat.js: the transcript goes to the input field
\* and sendVoiceMessage is scheduled 100 ms later.
ChatResult(text) ==
    /\ OnChatPage /\ recState \in {"listening", "stopping"}
    /\ Len(voiceTimers) < MaxVoiceTimers
    /\ recState' = "ending"
    /\ inputValue' = text
    /\ voiceTimers' = Append(voiceTimers, text)
    /\ UNCHANGED <<pageVars, setupVars, recognition, isRecording, isPressed,
                   conversationHistory, status, waveform, asks, audioPlayer,
                   chatMessages, noteTimers, synth, synthSupported,
                   lastSystem>>

\* recognition.onerror of chat.js
ChatRecognitionError(err) ==
    /\ OnChatPage /\ recState \in {"listening", "stopping"}
    /\ SetCtl(stopVoiceRecording([Ctl EXCEPT !.recState = "ending"]))
    /\ lastSystem' = "Voice recognition error: " \o err
    /\ UNCHANGED <<pageVars, setupVars, recognition, isPressed,
                   conversationHistory, asks, audioPlayer, inputValue,
                   chatMessages, noteTimers, synth, synthSupported,
                   voiceTimers>>

\* recognition.onend of chat.js
ChatRecognitionEnd ==
    /\ OnChatPage /\ recState # "idle"
    /\ SetCtl(stopVoiceRecording([Ctl EXCEPT !.recState = "idle"]))
    /\ UNCHANGED <<pageVars, chatVars, setupVars, recognition, isPressed,
                   conversationHistory, asks, audioPlayer>>

\* sendVoiceMessage(text) up to its await of fetch (579-605)
sendVoiceMessage(text) ==
    IF IsBlank(text)
    THEN UNCHANGED <<conversationHistory, chatMessages, asks>>
    ELSE /\ CanSend
         /\ conversationHistory' =
                Append(conversationHistory, Turn("user", text))
         /\ chatMessages' = Append(chatMessages, "typing")
         /\ asks' = Append(asks,
                Request("window.API_BASE/voice/ask/", "include", "text", text,
                        ContextWindow(conversationHistory')))

\* the timeout set by recognition.onresult fires
ChatVoiceTimerFire ==
    /\ OnChatPage /\ voiceTimers # <<>>
    /\ voiceTimers' = Tail(voiceTimers)
    /\ sendVoiceMessage(Head(voiceTimers))
    /\ UNCHANGED <<pageVars, setupVars, recognition, recState, isRecording,
                   isPressed, status, waveform, audioPlayer, inputValue,
                   noteTimers, synth, synthSupported, lastSystem>>

\* the timeout set after memory_extracted fires: a system message is added
ChatMemoryNoteFire ==
    /\ OnChatPage /\ noteTimers > 0
    /\ noteTimers' = noteTimers - 1
    /\ lastSystem' = "I learned something new"
    /\ UNCHANGED <<pageVars, convVars, setupVars, inputValue, chatMessages,
                   synth, synthSupported, voiceTimers>>

\* the utterance being spoken ends
ChatUtteranceEnd ==
    /\ OnChatPage /\ synth # <<>>
    /\ synth' = Tail(synth)
    /\ UNCHANGED <<pageVars, convVars, setupVars, inputValue, chatMessages,
                   noteTimers, synthSupported, voiceTimers, lastSystem>>

\* ------------------------------------------- observer of the spec's scenario
\* The scenario: press, a non-empty transcript, release, a success response
\* with an audio URL, the end of the playback.  The end of the recognition
\* session and the start of the playback may fall anywhere they can occur.
ScenarioOff == [step |-> "off", trace |-> <<>>, posts |-> <<>>]

ScenarioStep(step, ev) ==
    IF step = "start" /\ ev = "press" THEN "listening"
    ELSE IF step = "listening" /\ ev = "result" THEN "heard"
    ELSE IF step = "heard" /\ ev = "release" THEN "released"
    ELSE IF step = "released" /\ ev = "answer-audio" THEN "answered"
    ELSE IF step = "answered" /\ ev = "ended" THEN "done"
    ELSE IF step = "start" /\ ev = "load" THEN step
    ELSE IF step \in {"heard", "released", "answered"} /\ ev = "recognition-end"
         THEN step
    ELSE IF step = "answered" /\ ev = "playing" THEN step
    ELSE "off"

\* The observer follows event ev of the voice page: the status types shown
\* one after the other, and the requests sent.
Observe(ev) ==
    LET step == ScenarioStep(scenario.step, ev)
    IN  scenario' =
            IF step = "off" THEN ScenarioOff
            ELSE [step |-> step,
                  trace |-> IF status'.type # scenario.trace[Len(scenario.trace)]
                            THEN Append(scenario.trace, status'.type)
                            ELSE scenario.trace,
                  posts |-> IF Len(asks') > Len(asks)
                            THEN Append(scenario.posts, asks'[Len(asks')])
                            ELSE scenario.posts]

Unobserved == UNCHANGED scenario

\* ----------------------------------------------------------- specification
RecognitionErrors == {"no-speech"}

\* The state when the page's script has run and its DOMContentLoaded handler
\* has returned: the voice and chat pages wait for checkAuth().
InitOn(pages, c) ==
    /\ page \in pages
    /\ cap = c
    /\ scenario = IF page = "voice"
                  THEN [step |-> "start", trace |-> <<"ready">>,
                        posts |-> <<>>]
                  ELSE ScenarioOff
    /\ boot = IF page = "public" THEN "loading"
              ELSE IF page = "onboarding" THEN "ready" ELSE "auth"
    /\ navigation = Null
    /\ shown = "setup"
    /\ profilePending = FALSE
    /\ mimeSupport = MimeUnknown
    /\ recognition = FALSE
    /\ recState = "idle"
    /\ isRecording = FALSE
    /\ isPressed = FALSE
    /\ conversationHistory = <<>>
    /\ status = Ready
    /\ waveform = ""
    /\ asks = <<>>
    /\ audioPlayer = [src |-> "", state |-> "idle"]
    /\ inputValue = <<>>
    /\ chatMessages = <<>>
    /\ noteTimers = 0
    /\ synth = <<>>
    /\ synthSupported = FALSE
    /\ voiceTimers = <<>>
    /\ lastSystem = ""
    /\ isRecordingSetup = FALSE
    /\ setupPressed = FALSE
    /\ mediaRecorder = 0
    /\ audioChunks = <<>>
    /\ recordingStartTime = -1
    /\ recordingTimer = 0
    /\ intervals = {}
    /\ gumPending = 0
    /\ recorders = <<>>
    /\ orphanStreams = 0
    /\ uploads = <<>>
    /\ recordingResult = Result("", "")
    /\ setupUI = [recording |-> FALSE, text |-> "Ready to record",
                  timer |-> FALSE]
    /\ reloadTimer = FALSE
    /\ now = 0
    /\ fileJobs = <<>>
    /\ fileRequests = <<>>
    /\ currentStep = 1
    /\ shownStep = 1
    /\ selectedFiles = <<>>
    /\ uploadBtnDisabled \in (IF page = "onboarding" THEN BOOLEAN ELSE {FALSE})
    /\ wizardUploads = <<>>
    /\ summary = Null
    /\ alerts = ""

InitCap(c) == InitOn(Pages, c)

Init == InitCap(MaxHistory)

\* The pages start up.
StartUp ==
    \/ \E r \in AuthResponses, supported \in BOOLEAN :
           VoiceAuthSettle(r, supported) /\ Observe("load")
    \/ \E r \in ProfileResponses : VoiceProfileSettle(r) /\ Observe("load")
    \/ \E scriptOk \in BOOLEAN, token \in {"", "tok"}, supported \in BOOLEAN :
           PublicLoaded(scriptOk, token, supported) /\ Unobserved
    \/ \E r \in AuthResponses, supported \in BOOLEAN, speech \in BOOLEAN :
           ChatAuthSettle(r, supported, speech) /\ Unobserved

\* The events of a conversation on the voice page.
VoiceConversation ==
    \/ VoicePress /\ Observe("press")
    \/ VoiceRelease /\ Observe("release")
    \/ \E t \in Texts :
           VoiceResult(t)
           /\ Observe(IF IsBlank(t) THEN "result-blank" ELSE "result")
    \/ \E e \in RecognitionErrors :
           VoiceRecognitionError(e) /\ Observe("recognition-error")
    \/ VoiceRecognitionEnd /\ Observe("recognition-end")
    \/ \E i \in 1..MaxInFlight, r \in AskResponses :
           VoiceAskSettle(i, r)
           /\ Observe(IF IsSuccess(r) /\ Truthy(r.audio_url)
                      THEN "answer-audio" ELSE "answer-other")
    \/ VoicePlayStarted /\ Observe("playing")
    \/ VoicePlayRejected /\ Observe("play-rejected")
    \/ VoiceAudioEnded /\ Observe("ended")
    \/ VoiceAudioError /\ Observe("audio-error")

\* The events of a conversation on the public voice page.
PublicConversation ==
    \/ PublicPress /\ Unobserved
    \/ PublicRelease /\ Unobserved
    \/ \E t \in Texts : PublicResult(t) /\ Unobserved
    \/ \E e \in RecognitionErrors : PublicRecognitionError(e) /\ Unobserved
    \/ PublicRecognitionEnd /\ Unobserved
    \/ \E i \in 1..MaxInFlight, r \in AskResponses :
           PublicAskSettle(i, r) /\ Unobserved
    \/ \E ev \in {"playing", "rejected", "ended", "error"} :
           PublicPlayerEvent(ev) /\ Unobserved

\* The events of the chat page.
ChatConversation ==
    \/ \E t \in Texts : ChatType(t) /\ Unobserved
    \/ ChatSend /\ Unobserved
    \/ ChatRegenerate /\ Unobserved
    \/ \E i \in 1..MaxInFlight, r \in AskResponses :
           ChatAskSettle(i, r) /\ Unobserved
    \/ ChatPress /\ Unobserved
    \/ ChatRelease /\ Unobserved
    \/ \E t \in Texts : ChatResult(t) /\ Unobserved
    \/ \E e \in RecognitionErrors : ChatRecognitionError(e) /\ Unobserved
    \/ ChatRecognitionEnd /\ Unobserved
    \/ ChatVoiceTimerFire /\ Unobserved
    \/ ChatMemoryNoteFire /\ Unobserved
    \/ ChatUtteranceEnd /\ Unobserved

\* The events of the setup capture on the voice page.
SetupCapture ==
    \/ SetupPress /\ Unobserved
    \/ SetupRelease /\ Unobserved
    \/ \E granted \in BOOLEAN, supported \in MimeSupports :
           GetUserMediaSettle(granted, supported) /\ Unobserved
    \/ \E r \in 1..MaxRecorders, size \in {0, 1} :
           RecorderData(r, size) /\ Unobserved
    \/ \E r \in 1..MaxRecorders : RecorderStopEvent(r) /\ Unobserved
    \/ \E r \in 1..MaxRecorders : RecorderError(r) /\ Unobserved
    \/ \E i \in 1..MaxRecorders, r \in UploadResponses :
           UploadSettle(i, r) /\ Unobserved
    \/ ReloadFire /\ Unobserved
    \/ Tick /\ Unobserved

\* Spec: the three pages, with the conversations they hold.
Next == StartUp \/ VoiceConversation \/ PublicConversation \/ ChatConversation

Spec == Init /\ [][Next]_vars

\* SpecSetup: the voice page, with the setup capture.
InitSetup == Init /\ page = "voice"

NextSetup ==
    \/ \E r \in AuthResponses, supported \in BOOLEAN :
           VoiceAuthSettle(r, supported) /\ Unobserved
    \/ \E r \in ProfileResponses : VoiceProfileSettle(r) /\ Unobserved
    \/ SetupCapture

SpecSetup == InitSetup /\ [][NextSetup]_vars

\* SpecWindow: a conversation that is already under way.  The history holds
\* n turns of earlier exchanges, answered (user, assistant, user, ...) or
\* all failed (user turns only); one more exchange is explored.
PastText(i) == IF (i \div 2) % 2 = 0 THEN <<"h", "i">> ELSE <<"h", "i", " ">>

PastHistory(n, answered) ==
    [i \in 1..n |->
        IF answered /\ i % 2 = 0 THEN Turn("assistant", ResponseText)
        ELSE Turn("user", PastText(i))]

InitWindow ==
    /\ page \in Pages
    /\ \E n \in 0..MaxWindowLen, answered \in BOOLEAN :
           /\ conversationHistory = PastHistory(n, answered)
           /\ cap = n + 2
           /\ chatMessages =
                  IF page = "chat"
                  THEN <<"welcome">>
                       \o [i \in 1..(IF answered THEN n \div 2 ELSE 0)
                               |-> "agent"]
                  ELSE <<>>
    /\ scenario = ScenarioOff
    /\ boot = "ready"
    /\ navigation = Null
    /\ shown = IF page = "voice" THEN "conversation" ELSE "setup"
    /\ profilePending = FALSE
    /\ mimeSupport = MimeUnknown
    /\ recognition = TRUE
    /\ recState = "idle"
    /\ isRecording = FALSE
    /\ isPressed = FALSE
    /\ status = Ready
    /\ waveform = ""
    /\ asks = <<>>
    /\ audioPlayer = [src |-> "", state |-> "idle"]
    /\ inputValue = <<>>
    /\ noteTimers = 0
    /\ synth = <<>>
    /\ synthSupported = (page = "chat")
    /\ voiceTimers = <<>>
    /\ lastSystem = ""
    /\ isRecordingSetup = FALSE
    /\ setupPressed = FALSE
    /\ mediaRecorder = 0
    /\ audioChunks = <<>>
    /\ recordingStartTime = -1
    /\ recordingTimer = 0
    /\ intervals = {}
    /\ gumPending = 0
    /\ recorders = <<>>
    /\ orphanStreams = 0
    /\ uploads = <<>>
    /\ recordingResult = Result("", "")
    /\ setupUI = [recording |-> FALSE, text |-> "Ready to record",
                  timer |-> FALSE]
    /\ reloadTimer = FALSE
    /\ now = 0
    /\ fileJobs = <<>>
    /\ fileRequests = <<>>
    /\ currentStep = 1
    /\ shownStep = 1
    /\ selectedFiles = <<>>
    /\ uploadBtnDisabled = FALSE
    /\ wizardUploads = <<>>
    /\ summary = Null
    /\ alerts = ""

NextWindow == VoiceConversation \/ PublicConversation \/ ChatConversation

SpecWindow == InitWindow /\ [][NextWindow]_vars

\* SpecModes: the voice page from its start-up on, with the record controls
\* of both sections.  The wall clock stands still, so every setup recording
\* is a short one and nothing is uploaded; the recognizer hears nothing, so
\* no request is sent.
NextModes ==
    \/ \E r \in AuthResponses, supported \in BOOLEAN :
           VoiceAuthSettle(r, supported) /\ Observe("load")
    \/ \E r \in ProfileResponses : VoiceProfileSettle(r) /\ Observe("load")
    \/ SetupPress /\ Unobserved
    \/ SetupRelease /\ Unobserved
    \/ \E granted \in BOOLEAN, supported \in MimeSupports :
           GetUserMediaSettle(granted, supported) /\ Unobserved
    \/ \E r \in 1..MaxRecorders, size \in {0, 1} :
           RecorderData(r, size) /\ Unobserved
    \/ \E r \in 1..MaxRecorders : RecorderStopEvent(r) /\ Unobserved
    \/ \E r \in 1..MaxRecorders : RecorderError(r) /\ Unobserved
    \/ VoicePress /\ Observe("press")
    \/ VoiceRelease /\ Observe("release")
    \/ \E e \in RecognitionErrors :
           VoiceRecognitionError(e) /\ Observe("recognition-error")
    \/ VoiceRecognitionEnd /\ Observe("recognition-end")

SpecModes == InitSetup /\ [][NextModes]_vars

\* SpecSpeech: the chat page with spoken messages only, the assistant
\* answering with one of two texts.
OtherResponseText == "so long"

SpeechResponses ==
    LET ok == Resp(TRUE, TRUE, TRUE, TRUE, Null, Null, FALSE)
    IN  {ok, [ok EXCEPT !.response_text = OtherResponseText],
         Resp(TRUE, FALSE, FALSE, FALSE, Null, Null, FALSE)}

InitSpeech == Init /\ page = "chat"

NextSpeech ==
    \/ \E r \in AuthResponses, supported \in BOOLEAN, speech \in BOOLEAN :
           ChatAuthSettle(r, supported, speech) /\ Unobserved
    \/ ChatPress /\ Unobserved
    \/ ChatRelease /\ Unobserved
    \/ \E t \in Texts : ChatResult(t) /\ Unobserved
    \/ \E e \in RecognitionErrors : ChatRecognitionError(e) /\ Unobserved
    \/ ChatRecognitionEnd /\ Unobserved
    \/ ChatVoiceTimerFire /\ Unobserved
    \/ \E i \in 1..MaxInFlight, r \in SpeechResponses :
           ChatAskSettle(i, r) /\ Unobserved
    \/ ChatUtteranceEnd /\ Unobserved

SpecSpeech == InitSpeech /\ [][NextSpeech]_vars

\* SpecSpoken: the three pages with spoken input only; nothing is typed on
\* the chat page.
ChatSpoken ==
    \/ ChatPress /\ Unobserved
    \/ ChatRelease /\ Unobserved
    \/ \E t \in Texts : ChatResult(t) /\ Unobserved
    \/ \E e \in RecognitionErrors : ChatRecognitionError(e) /\ Unobserved
    \/ ChatRecognitionEnd /\ Unobserved
    \/ ChatVoiceTimerFire /\ Unobserved
    \/ \E i \in 1..MaxInFlight, r \in AskResponses :
           ChatAskSettle(i, r) /\ Unobserved
    \/ ChatMemoryNoteFire /\ Unobserved
    \/ ChatUtteranceEnd /\ Unobserved

NextSpoken == StartUp \/ VoiceConversation \/ PublicConversation \/ ChatSpoken

SpecSpoken == Init /\ [][NextSpoken]_vars

\* SpecTyped: the three pages with typed input only on the chat page;
\* nothing is spoken there.
ChatTyped ==
    \/ \E t \in Texts : ChatType(t) /\ Unobserved
    \/ ChatSend /\ Unobserved
    \/ ChatRegenerate /\ Unobserved
    \/ \E i \in 1..MaxInFlight, r \in AskResponses :
           ChatAskSettle(i, r) /\ Unobserved
    \/ ChatMemoryNoteFire /\ Unobserved

NextTyped == StartUp \/ VoiceConversation \/ PublicConversation \/ ChatTyped

SpecTyped == Init /\ [][NextTyped]_vars

\* SpecRegenerate: the chat page with spoken messages, and
\* window.regenerateMessage() called at any time.
NextRegenerate ==
    \/ \E r \in AuthResponses, supported \in BOOLEAN, speech \in BOOLEAN :
           ChatAuthSettle(r, supported, speech) /\ Unobserved
    \/ ChatSpoken
    \/ RegenerateCall /\ Unobserved

SpecRegenerate == InitSpeech /\ [][NextRegenerate]_vars

\* SpecIndicators: the chat page with typed messages only, and a history
\* long enough for a reply, a second message and its regeneration.
MaxTypedHistory == 6

InitIndicators == InitCap(MaxTypedHistory) /\ page = "chat"

NextIndicators ==
    \/ \E r \in AuthResponses, supported \in BOOLEAN, speech \in BOOLEAN :
           ChatAuthSettle(r, supported, speech) /\ Unobserved
    \/ ChatTyped

SpecIndicators == InitIndicators /\ [][NextIndicators]_vars

\* ------------------------------------------------ chat page: file upload
MaxFiles == 3        \* most files chosen in one file dialog
MaxFileJobs == 2     \* handleFileUpload calls in one page session

FileNames == {"cv.pdf", "essay.txt"}

\* Array.from(e.target.files) of a change event
FileLists == UNION {[1..n -> FileNames] : n \in 1..MaxFiles}

\* The answers of /upload-sample/: result is TRUE when the body has a
\* result member (data.result.experiences_saved is read on success).
FileResponses ==
    { [net |-> FALSE, ok |-> FALSE, json |-> FALSE, success |-> FALSE,
       result |-> FALSE, error |-> Null],
      [net |-> TRUE, ok |-> FALSE, json |-> TRUE, success |-> FALSE,
       result |-> FALSE, error |-> "bad file"],
      [net |-> TRUE, ok |-> TRUE, json |-> FALSE, success |-> FALSE,
       result |-> FALSE, error |-> Null],
      [net |-> TRUE, ok |-> TRUE, json |-> TRUE, success |-> FALSE,
       result |-> FALSE, error |-> Null],
      [net |-> TRUE, ok |-> TRUE, json |-> TRUE, success |-> TRUE,
       result |-> FALSE, error |-> Null],
      [net |-> TRUE, ok |-> TRUE, json |-> TRUE, success |-> TRUE,
       result |-> TRUE, error |-> Null] }

\* uploadFile() after its fetch settles (316-334): the state the upload
\* message is left in.  A success body without result throws inside the
\* try, after 'complete' was set, and the catch sets 'error'.
uploadFileStatus(r) ==
    IF r.net /\ r.ok /\ r.json /\ r.success /\ r.result THEN "complete"
    ELSE "error"

\* the system message uploadFile() adds
uploadFileMessage(r) ==
    IF ~r.net THEN "Upload error: Failed to fetch"
    ELSE IF ~r.ok THEN "Upload error: HTTP 500: Internal Server Error"
    ELSE IF ~r.json THEN "Upload error: Unexpected token"
    ELSE IF ~r.success THEN "Error: " \o OrElse(r.error, "Upload failed")
    ELSE IF ~r.result THEN "Upload error: Cannot read properties of undefined"
    ELSE "I've learned about your writing style!"

FileRequest(job, k, name) == [job |-> job, file |-> k, name |-> name]

\* a loop that gives up at the first file that fails
handleFileUploadStopsAtFailure(job, k, r) ==
    IF k < Len(job.files) /\ uploadFileStatus(r) = "complete"
    THEN k + 1 ELSE 0

\* handleFileUpload() after uploadFile(files[k]) has returned (294-299):
\* the index of the file the loop uploads next, 0 when the loop is over.
\* uploadFile() catches every failure, so the loop goes on.
handleFileUploadNext(job, k, r) ==
    IF k < Len(job.files) THEN k + 1 ELSE 0

\* change event of #fileInput: handleFileUpload(e) up to the await of the
\* first uploadFile()
ChatFilesChosen(files) ==
    /\ OnChatPage /\ Len(fileJobs) < MaxFileJobs
    /\ fileJobs' = Append(fileJobs, [files |-> files, outcomes |-> <<>>])
    /\ fileRequests' =
           IF files = <<>> THEN fileRequests
           ELSE Append(fileRequests,
                       FileRequest(Len(fileJobs) + 1, 1, files[1]))
    /\ UNCHANGED <<page, cap, mimeSupport, wizardVars, boot, navigation,
                   shown, profilePending, convVars, chatVars, setupVars>>

\* the fetch of uploadFile() settles; uploadFile() returns and the loop of
\* handleFileUpload() goes on in the same task
ChatFileSettle(i, r) ==
    /\ OnChatPage /\ i \in 1..Len(fileRequests)
    /\ LET q == fileRequests[i]
           job == fileJobs[q.job]
           next == handleFileUploadNext(job, q.file, r)
       IN  /\ fileJobs' =
                  [fileJobs EXCEPT ![q.job].outcomes =
                       Append(@, uploadFileStatus(r))]
           /\ fileRequests' =
                  IF next = 0 THEN RemoveAt(fileRequests, i)
                  ELSE Append(RemoveAt(fileRequests, i),
                              FileRequest(q.job, next, job.files[next]))
    /\ lastSystem' = uploadFileMessage(r)
    /\ UNCHANGED <<page, cap, mimeSupport, wizardVars, boot, navigation,
                   shown, profilePending, convVars, inputValue, chatMessages,
                   noteTimers, synth, synthSupported, voiceTimers, setupVars>>

\* SpecFiles: the chat page, files attached.
InitFiles == Init /\ page = "chat"

NextFiles ==
    \/ \E r \in AuthResponses, supported \in BOOLEAN, speech \in BOOLEAN :
           ChatAuthSettle(r, supported, speech) /\ Unobserved
    \/ \E files \in FileLists : ChatFilesChosen(files) /\ Unobserved
    \/ \E i \in 1..MaxFileJobs, r \in FileResponses :
           ChatFileSettle(i, r) /\ Unobserved

SpecFiles == InitFiles /\ [][NextFiles]_vars

\* ------------------------------------------------- onboarding wizard
MaxBatch == 2           \* most files in one file dialog or one drop
MaxWizardUploads == 2   \* uploadFiles calls not yet finished
LastStep == 5           \* the summary step
ProcessingStep == 4     \* the step uploadFiles shows
UploadStep == 3         \* the step skipToUpload shows

FileSizes == {1024, 2048}

\* File objects as handleFiles compares them: by name and size
WizardFiles == [name : FileNames, size : FileSizes]

Batches == UNION {[1..n -> WizardFiles] : n \in 1..MaxBatch}

\* The answers of /onboarding/upload/: summary is TRUE when the body has a
\* summary member (showSummary reads summary.total_files).
WizardResponses ==
    { [net |-> FALSE, ok |-> FALSE, json |-> FALSE, success |-> FALSE,
       summary |-> FALSE, error |-> Null],
      [net |-> TRUE, ok |-> FALSE, json |-> TRUE, success |-> FALSE,
       summary |-> FALSE, error |-> "not logged in"],
      [net |-> TRUE, ok |-> TRUE, json |-> FALSE, success |-> FALSE,
       summary |-> FALSE, error |-> Null],
      [net |-> TRUE, ok |-> TRUE, json |-> TRUE, success |-> FALSE,
       summary |-> FALSE, error |-> "no text found"],
      [net |-> TRUE, ok |-> TRUE, json |-> TRUE, success |-> FALSE,
       summary |-> TRUE, error |-> Null],
      [net |-> TRUE, ok |-> TRUE, json |-> TRUE, success |-> TRUE,
       summary |-> FALSE, error |-> Null],
      [net |-> TRUE, ok |-> TRUE, json |-> TRUE, success |-> TRUE,
       summary |-> TRUE, error |-> Null] }

OnWizard == Live /\ page = "onboarding"

\* selectedFiles.find(f => f.name === file.name && f.size === file.size)
FindFile(selected, file) ==
    \E k \in 1..Len(selected) :
        selected[k].name = file.name /\ selected[k].size = file.size

\* a handleFiles that pushes every file
handleFilesWithoutFind(selected, files) == selected \o files

\* handleFiles(files), the forEach of 192-196: what selectedFiles becomes
RECURSIVE handleFiles(_, _)
handleFiles(selected, files) ==
    IF files = <<>> THEN selected
    ELSE handleFiles(IF FindFile(selected, Head(files)) THEN selected
                     ELSE Append(selected, Head(files)),
                     Tail(files))

\* removeFile(index): selectedFiles.splice(index, 1), index counted from 0
removeFile(selected, index) == RemoveAt(selected, index + 1)

\* an updateUploadButton that always enables the button
updateUploadButtonEnables(selected) == FALSE

\* updateUploadButton(): the value given to uploadBtn.disabled
updateUploadButton(selected) == Len(selected) = 0

\* a nextStep without its guard
nextStepUnguarded(step) == step + 1

\* nextStep(): what currentStep becomes
nextStep(step) == IF step < LastStep THEN step + 1 ELSE step

\* prevStep(): what currentStep becomes
prevStep(step) == IF step > 1 THEN step - 1 ELSE step

\* an uploadFiles that does not look at data.success
uploadFilesProceedsWithoutFlag(r) == r.net /\ r.ok /\ r.json

\* uploadFiles(): the fetch did not throw, response.ok, the body parsed and
\* data.success is truthy (303-311)
uploadFilesProceeds(r) == r.net /\ r.ok /\ r.json /\ r.success

\* the text uploadFiles() gives to alert() for the answer r
uploadFilesAlert(r) ==
    IF ~r.net THEN "Error: Failed to fetch. Make sure you're logged in"
    ELSE IF ~r.ok THEN "Error: HTTP 500: Internal Server Error. Make sure you're logged in"
    ELSE IF ~r.json THEN "Error: Unexpected token. Make sure you're logged in"
    ELSE IF ~r.success
         THEN "Error: " \o (IF r.error = Null THEN "undefined" ELSE r.error)
    ELSE "Error: Cannot read properties of undefined. Make sure you're logged in"

\* change event of #fileInput, or drop on #uploadZone
WizardHandleFiles(files) ==
    /\ OnWizard
    /\ selectedFiles' = handleFiles(selectedFiles, files)
    /\ uploadBtnDisabled' = updateUploadButton(selectedFiles')
    /\ UNCHANGED <<page, cap, mimeSupport, fileVars, boot, navigation, shown,
                   profilePending, convVars, chatVars, setupVars,
                   currentStep, shownStep, wizardUploads, summary, alerts>>

\* click on the Remove button that updateFileList() rendered for index
WizardRemoveFile(index) ==
    /\ OnWizard /\ index \in 0..(Len(selectedFiles) - 1)
    /\ selectedFiles' = removeFile(selectedFiles, index)
    /\ uploadBtnDisabled' = updateUploadButton(selectedFiles')
    /\ UNCHANGED <<page, cap, mimeSupport, fileVars, boot, navigation, shown,
                   profilePending, convVars, chatVars, setupVars,
                   currentStep, shownStep, wizardUploads, summary, alerts>>

\* what no step function of the wizard writes
WizardStepFrame ==
    UNCHANGED <<page, cap, mimeSupport, fileVars, boot, navigation, shown,
                profilePending, convVars, chatVars, setupVars, selectedFiles,
                uploadBtnDisabled, wizardUploads, summary, alerts>>

\* nextStep(): showStep() is called only when the step changed
WizardNextStep ==
    /\ OnWizard
    /\ currentStep' = nextStep(currentStep)
    /\ shownStep' = IF currentStep < LastStep THEN currentStep' ELSE shownStep
    /\ WizardStepFrame

\* prevStep()
WizardPrevStep ==
    /\ OnWizard
    /\ currentStep' = prevStep(currentStep)
    /\ shownStep' = IF currentStep > 1 THEN currentStep' ELSE shownStep
    /\ WizardStepFrame

\* skipToUpload()
WizardSkipToUpload ==
    /\ OnWizard
    /\ currentStep' = UploadStep
    /\ shownStep' = UploadStep
    /\ WizardStepFrame

\* uploadFiles() up to its await of fetch (285-302)
WizardUploadFiles ==
    /\ OnWizard /\ Len(wizardUploads) < MaxWizardUploads
    /\ IF selectedFiles = <<>>
       THEN UNCHANGED <<currentStep, shownStep, wizardUploads>>
       ELSE /\ currentStep' = ProcessingStep
            /\ shownStep' = ProcessingStep
            /\ wizardUploads' =
                   Append(wizardUploads, [phase |-> "fetch", response |-> Null])
    /\ UNCHANGED <<page, cap, mimeSupport, fileVars, boot, navigation, shown,
                   profilePending, convVars, chatVars, setupVars,
                   selectedFiles, uploadBtnDisabled, summary, alerts>>

\* the fetch of uploadFiles() settles (303-313): either the first timeout
\* is set, or the alert is shown
WizardUploadSettle(i, r) ==
    /\ OnWizard /\ i \in 1..Len(wizardUploads)
    /\ wizardUploads[i].phase = "fetch"
    /\ IF uploadFilesProceeds(r)
       THEN /\ wizardUploads' =
                   [wizardUploads EXCEPT ![i] =
                        [phase |-> "analyzing", response |-> r]]
            /\ UNCHANGED alerts
       ELSE /\ wizardUploads' = RemoveAt(wizardUploads, i)
            /\ alerts' = uploadFilesAlert(r)
    /\ UNCHANGED <<page, cap, mimeSupport, fileVars, boot, navigation, shown,
                   profilePending, convVars, chatVars, setupVars,
                   currentStep, shownStep, selectedFiles, uploadBtnDisabled,
                   summary>>

\* one of the three timeouts of uploadFiles() fires (313-326); after the
\* last one showSummary(data.summary) runs, and throws into the catch when
\* the body has no summary
WizardUploadTimer(i) ==
    /\ OnWizard /\ i \in 1..Len(wizardUploads)
    /\ wizardUploads[i].phase \in {"analyzing", "extracting", "complete"}
    /\ LET u == wizardUploads[i]
       IN  IF u.phase = "analyzing"
           THEN /\ wizardUploads' =
                       [wizardUploads EXCEPT ![i].phase = "extracting"]
                /\ UNCHANGED <<currentStep, shownStep, summary, alerts>>
           ELSE IF u.phase = "extracting"
           THEN /\ wizardUploads' =
                       [wizardUploads EXCEPT ![i].phase = "complete"]
                /\ UNCHANGED <<currentStep, shownStep, summary, alerts>>
           ELSE /\ wizardUploads' = RemoveAt(wizardUploads, i)
                /\ IF u.response.summary
                   THEN /\ summary' = "shown"
                        /\ currentStep' = LastStep
                        /\ shownStep' = LastStep
                        /\ UNCHANGED alerts
                   ELSE /\ alerts' = uploadFilesAlert(u.response)
                        /\ UNCHANGED <<currentStep, shownStep, summary>>
    /\ UNCHANGED <<page, cap, mimeSupport, fileVars, boot, navigation, shown,
                   profilePending, convVars, chatVars, setupVars,
                   selectedFiles, uploadBtnDisabled>>

\* SpecSelection: the onboarding page, files chosen and removed and the
\* step buttons pressed, nothing uploaded.
InitWizard == InitOn({"onboarding"}, MaxHistory)

WizardSteps ==
    \/ WizardNextStep /\ Unobserved
    \/ WizardPrevStep /\ Unobserved
    \/ WizardSkipToUpload /\ Unobserved

NextSelection ==
    \/ \E files \in Batches : WizardHandleFiles(files) /\ Unobserved
    \/ \E index \in 0..(2 * MaxBatch - 1) :
           WizardRemoveFile(index) /\ Unobserved
    \/ WizardSteps

SpecSelection == InitWizard /\ [][NextSelection]_vars

\* SpecWizard: the onboarding page with its uploads; the files are chosen
\* one at a time and have one size.
SingleFiles == {files \in Batches : Len(files) = 1 /\ files[1].size = 1024}

NextWizard ==
    \/ \E files \in SingleFiles : WizardHandleFiles(files) /\ Unobserved
    \/ \E index \in 0..(2 * MaxBatch - 1) :
           WizardRemoveFile(index) /\ Unobserved
    \/ WizardSteps
    \/ WizardUploadFiles /\ Unobserved
    \/ \E i \in 1..MaxWizardUploads, r \in WizardResponses :
           WizardUploadSettle(i, r) /\ Unobserved
    \/ \E i \in 1..MaxWizardUploads : WizardUploadTimer(i) /\ Unobserved

SpecWizard == InitWizard /\ [][NextWizard]_vars

\* ------------------------------------------------------------------ claims
\* C1: every ask / generate request carries, as conversation_history, the
\* last min(10, n) turns of the local history as it is when the request is
\* sent (n its length, the new user turn included), in their order.
C1_RequestCarriesLastTurns ==
    [][Len(asks') > Len(asks) =>
          LET sent == asks'[Len(asks')].conversation_history
              n == Len(conversationHistory')
              k == IF n < 10 THEN n ELSE 10
          IN  /\ Len(sent) = k
              /\ \A i \in 1..k : sent[i] = conversationHistory'[n - k + i]]_vars

\* a request in flight left older turns of the history behind
C1_Witness ==
    \E i \in 1..Len(asks) :
        /\ Len(asks[i].conversation_history) = 10
        /\ Len(conversationHistory) > 10
        /\ asks[i].conversation_history[10] = Turn("user", asks[i].text)

\* C2, as the spec states it: the local history is append-only, every step
\* leaves the earlier history as a prefix of the later one.
C2_AppendOnly ==
    [][/\ Len(conversationHistory) <= Len(conversationHistory')
       /\ SubSeq(conversationHistory', 1, Len(conversationHistory))
              = conversationHistory]_vars

\* C2, amended: every step leaves the earlier history as a prefix of the
\* later one, except regenerateMessage on the chat page when the last turn
\* is an assistant turn: it removes that one turn and appends the trimmed
\* text of the last user turn as a new user turn, sent as a prompt.
C2_AppendOnlyExceptRegenerate ==
    [][LET h == conversationHistory
           h2 == conversationHistory'
           n == Len(h)
       IN  \/ /\ n <= Len(h2)
              /\ SubSeq(h2, 1, n) = h
           \/ /\ page = "chat"
              /\ n > 0
              /\ h[n].role = "assistant"
              /\ \E k \in 1..Len(chatMessages) : chatMessages[k] = "agent"
              /\ Len(h2) = n
              /\ SubSeq(h2, 1, n - 1) = SubSeq(h, 1, n - 1)
              /\ \E u \in 1..(n - 1) :
                     /\ h[u].role = "user"
                     /\ \A j \in (u + 1)..(n - 1) : h[j].role # "user"
                     /\ h2[n] = Turn("user", Trim(h[u].content))
              /\ Len(asks') = Len(asks) + 1
              /\ asks'[Len(asks')].key = "prompt"
              /\ asks'[Len(asks')].conversation_history = h2]_vars

\* an answer was received (its memory note is still pending) and its
\* assistant turn is no longer in the history: it was regenerated
C2_Witness ==
    /\ page = "chat"
    /\ noteTimers > 0
    /\ Len(conversationHistory) = 2
    /\ \A i \in 1..Len(conversationHistory) :
           conversationHistory[i].role = "user"
    /\ Len(asks) = 1

\* C3: in conversation mode, while isRecording is true, startRecording (of
\* either voice page) and startVoiceRecording return without any effect,
\* and a press of the record control changes neither isRecording, nor the
\* recognizer, nor the pressed flag, nor what is displayed: recognition.start()
\* is not called again.
C3_PressWhileRecordingIsNoOp ==
    [][isRecording =>
          /\ startRecording(Ctl) = Ctl
          /\ startRecordingPublic(Ctl) = Ctl
          /\ startVoiceRecording(Ctl) = Ctl
          /\ (VoicePress \/ PublicPress \/ ChatPress) =>
                 UNCHANGED <<isRecording, recState, isPressed, status,
                             waveform, asks, conversationHistory>>]_vars

\* the recognizer is listening on the voice page, and the control can be
\* pressed again
C3_Witness ==
    /\ page = "voice"
    /\ isRecording
    /\ recState = "listening"
    /\ status.type = "listening"
    /\ ENABLED (VoicePress /\ Unobserved)

\* C4, as the spec states it: in setup mode at most one capture session is
\* active at a time, whatever the interleaving of presses, releases and
\* microphone grants: never two MediaRecorders recording, never two open
\* microphone streams.
C4_AtMostOneCaptureSession ==
    /\ Cardinality({r \in 1..Len(recorders) :
                       recorders[r].phase = "recording"}) <= 1
    /\ Cardinality({r \in 1..Len(recorders) :
                       recorders[r].phase = "recording"
                       /\ recorders[r].stream = "live"})
           + orphanStreams <= 1

\* C5: when the stop callback of a setup recording runs less than 30
\* seconds after recordingStartTime, no upload request is made, the
\* too-short message is shown, and the capture is reset to not recording.
C5_ShortRecordingNeverUploaded ==
    [][\A r \in 1..Len(recorders) :
          (/\ recorders[r].phase = "stopping"
           /\ recorders'[r].phase = "done"
           /\ now - recordingStartTime < 30000) =>
              /\ uploads' = uploads
              /\ recordingResult'.type = "error"
              /\ \E k \in 0..30 :
                     recordingResult'.text =
                         "Recording too short (" \o ToString(k)
                             \o "s). Please record at least 30 seconds."
              /\ ~isRecordingSetup'
              /\ setupUI' = [recording |-> FALSE, text |-> "Ready to record",
                             timer |-> FALSE]]_vars

\* a recording stopped after 15 seconds was refused, and nothing was uploaded
C5_Witness ==
    /\ recordingResult.type = "error"
    /\ recordingResult.text =
           "Recording too short (15s). Please record at least 30 seconds."
    /\ \E r \in 1..Len(recorders) : recorders[r].phase = "done"
    /\ uploads = <<>>
    /\ ~reloadTimer

\* C6, as the spec states it: when the stop callback of a setup recording
\* that lasted at least 30 seconds runs, exactly one upload is made, with
\* one blob made of all the chunks buffered for that recording, whatever
\* happened between the stop request and the stop callback.
C6_LongRecordingUploadedOnce ==
    [][\A r \in 1..Len(recorders) :
          (/\ recorders[r].phase = "stopping"
           /\ recorders'[r].phase = "done"
           /\ now - recorders[r].startedAt >= 30000) =>
              /\ Len(uploads') = Len(uploads) + 1
              /\ uploads'[Len(uploads')].blob.parts =
                     [i \in 1..recorders[r].own |-> [rec |-> r, n |-> i]]]_vars

\* C7: when the ask endpoint of a voice page answers a failure (the request
\* fails, a status that is not 2xx, a body that does not parse, or
\* success:false), the error message is displayed with the status type
\* error (the error field of the body when it has one), no playback is
\* started and no turn is appended to the history.
C7_FailureIsSurfacedWithoutSpeaking ==
    [][\A i \in 1..MaxInFlight :
       \A r \in FailureResponses :
          (VoiceAskSettle(i, r) \/ PublicAskSettle(i, r)) =>
              /\ status'.type = "error"
              /\ (r.net /\ r.json /\ r.error = "X") =>
                     status'.text = "Error: X"
              /\ (r.net /\ r.ok /\ r.json /\ r.error = Null) =>
                     status'.text = "Error: Failed to get response"
              /\ waveform' = ""
              /\ audioPlayer' = audioPlayer
              /\ conversationHistory' = conversationHistory]_vars

\* the only exchange of the voice page was answered success:false with
\* error "X"
C7_Witness ==
    /\ page = "voice"
    /\ status = Status("Error: X", "error")
    /\ asks = <<>>
    /\ Len(conversationHistory) = 1
    /\ audioPlayer.state = "idle"

\* C8: when the ask endpoint of a voice page answers success:true without
\* an audio URL (null or empty), the status becomes 'Ready to listen', the
\* assistant turn is appended to the history, and no playback is started.
C8_SuccessWithoutAudioGoesIdle ==
    [][\A i \in 1..MaxInFlight :
       \A r \in SuccessResponses :
          (/\ r.audio_url \in {Null, ""}
           /\ (VoiceAskSettle(i, r) \/ PublicAskSettle(i, r))) =>
              /\ status' = Status("Ready to listen", "ready")
              /\ waveform' = ""
              /\ audioPlayer' = audioPlayer
              /\ conversationHistory' =
                     Append(conversationHistory,
                            Turn("assistant", r.response_text))]_vars

\* the only exchange of the voice page was answered without audio: two
\* turns, status ready, and the player never got a source
C8_Witness ==
    /\ page = "voice"
    /\ Len(conversationHistory) = 2
    /\ conversationHistory[2].role = "assistant"
    /\ status = Status("Ready to listen", "ready")
    /\ audioPlayer = [src |-> "", state |-> "idle"]
    /\ asks = <<>>

\* C9: empty or whitespace-only text sends no request and leaves the
\* history as it is: in handleVoiceInput of the voice pages, which then
\* shows 'Ready to listen'; in sendVoiceMessage and in sendMessage of the
\* chat page.
C9_BlankTextSendsNothing ==
    [][/\ \A t \in Texts :
              ((\A k \in 1..Len(t) : t[k] = " ")
               /\ (VoiceResult(t) \/ PublicResult(t))) =>
                  /\ asks' = asks
                  /\ conversationHistory' = conversationHistory
                  /\ status' = Status("Ready to listen", "ready")
                  /\ waveform' = ""
       /\ (/\ ChatVoiceTimerFire
           /\ \A k \in 1..Len(Head(voiceTimers)) : Head(voiceTimers)[k] = " ")
              => UNCHANGED <<asks, conversationHistory, chatMessages, synth>>
       /\ (/\ ChatSend
           /\ \A k \in 1..Len(inputValue) : inputValue[k] = " ")
              => UNCHANGED <<asks, conversationHistory, chatMessages, synth>>
      ]_vars

\* a whitespace-only transcript has just been handled on the voice page:
\* the recognizer delivered its result, nothing was sent
C9_Witness ==
    /\ page = "voice"
    /\ recState = "ending"
    /\ status = Status("Ready to listen", "ready")
    /\ asks = <<>>
    /\ conversationHistory = <<>>

\* C10: after press, a non-empty transcript, release, a success response
\* with an audio URL and the end of the playback, exactly one request was
\* sent, its history being the single user turn; the status went ready,
\* listening, processing, speaking, ready; and the history holds two turns,
\* the user's and the assistant's.
C10_ExchangeScenario ==
    scenario.step = "done" =>
        /\ scenario.trace =
               <<"ready", "listening", "processing", "speaking", "ready">>
        /\ Len(scenario.posts) = 1
        /\ scenario.posts[1].conversation_history =
               <<Turn("user", scenario.posts[1].text)>>
        /\ Len(conversationHistory) = 2
        /\ conversationHistory[1] = Turn("user", scenario.posts[1].text)
        /\ conversationHistory[2].role = "assistant"
        /\ asks = <<>>

\* the scenario has run to its end
C10_Witness ==
    /\ scenario.step = "done"
    /\ status = Status("Ready to listen", "ready")
    /\ audioPlayer.state = "idle"

C12_EndWithoutResultLeavesProcessing ==
    [][(/\ VoiceRecognitionEnd
        /\ recState \in {"listening", "stopping"}
        /\ asks = <<>>
        /\ audioPlayer.state = "idle") => status'.type # "processing"]_vars

\* C13, as the spec states it: on the voice pages the status leaves Speaking
\* only in the step of a playback event: the audio ended, the audio failed,
\* or its play() promise was rejected.
C13_SpeakingLeftOnlyByPlayback ==
    [][(/\ page \in {"voice", "public"}
        /\ status.type = "speaking"
        /\ status'.type # "speaking") =>
            \/ VoiceAudioEnded \/ VoiceAudioError \/ VoicePlayRejected
            \/ \E ev \in {"ended", "error", "rejected"} :
                   PublicPlayerEvent(ev)]_vars

\* C14, as the spec states it: every microphone stream startSetupRecording
\* acquired gets its tracks stopped: no granted stream is left without a
\* recorder whose stop event would stop it, and a recorder whose stop event
\* was delivered has its stream stopped.
C14_EveryStreamStopped ==
    /\ orphanStreams = 0
    /\ \A r \in 1..Len(recorders) :
           recorders[r].phase = "done" => recorders[r].stream = "stopped"

\* C15, as the spec states it: in no reachable state are a conversational
\* speech-recognition recording (isRecording) and a setup raw-audio recording
\* (isRecordingSetup, or a MediaRecorder that is recording) active together.
C15_RecordingModesExclusive ==
    ~(/\ isRecording
      /\ \/ isRecordingSetup
         \/ \E r \in 1..Len(recorders) : recorders[r].phase = "recording")

\* C16: when loadVoiceProfile completes exactly one of the two sections is
\* displayed: the conversation section if and only if the profile request
\* was answered 2xx with a body that parses and has is_active === true; the
\* setup section in every other case (is_active false, absent or merely
\* truthy, a non-2xx answer, a network or parse error).
C16_SectionFollowsProfile ==
    [][\A r \in ProfileResponses :
           VoiceProfileSettle(r) =>
               /\ shown' \in {"setup", "conversation"}
               /\ shown' = "conversation" <=>
                      (r.net /\ r.ok /\ r.json /\ r.is_active = "true")]_vars

\* the profile was loaded and the conversation section is displayed
C16_Witness ==
    /\ page = "voice"
    /\ boot = "ready"
    /\ ~profilePending
    /\ shown = "conversation"

\* C17: speakResponse cancels what the speech queue holds before it queues
\* the new utterance: after an answer to a spoken message is spoken, the
\* queue holds exactly that answer's text, whatever it held before, and at
\* no time does the queue hold more than one utterance.
C17_LastUtteranceOnly ==
    [][/\ Len(synth') <= 1
       /\ \A i \in 1..MaxInFlight : \A r \in SpeechResponses :
              (ChatAskSettle(i, r) /\ IsSuccess(r) /\ synthSupported) =>
                  synth' = <<r.response_text>>]_vars

\* two answers with different texts were spoken one after the other, and the
\* queue holds the text of the second
C17_Witness ==
    /\ page = "chat"
    /\ Len(conversationHistory) = 4
    /\ conversationHistory[2].role = "assistant"
    /\ conversationHistory[4].role = "assistant"
    /\ conversationHistory[2].content # conversationHistory[4].content
    /\ synth = <<conversationHistory[4].content>>

\* C18: a recognised non-empty transcript adds exactly one ask request, with
\* that transcript as its text, to the requests in flight (on the chat page
\* when the timer set by onresult fires); the step that handles a response,
\* success or failure, removes that request and adds none; and the number of
\* requests in flight grows only in the step that handles a recognised
\* transcript: nothing is sent again automatically.
C18_OneRequestPerTranscriptNoRetry ==
    [][/\ (recState # "ending" /\ recState' = "ending") =>
              \A t \in Texts :
                  ((VoiceResult(t) \/ PublicResult(t)) /\ ~IsBlank(t)) =>
                      /\ Len(asks') = Len(asks) + 1
                      /\ SubSeq(asks', 1, Len(asks)) = asks
                      /\ asks'[Len(asks')].text = t
       /\ (voiceTimers # <<>> /\ ChatVoiceTimerFire
              /\ ~IsBlank(Head(voiceTimers))) =>
                  /\ Len(asks') = Len(asks) + 1
                  /\ SubSeq(asks', 1, Len(asks)) = asks
                  /\ asks'[Len(asks')].text = Head(voiceTimers)
       /\ \A i \in 1..Len(asks) : \A r \in AskResponses :
              (\/ page = "voice" /\ VoiceAskSettle(i, r)
               \/ page = "public" /\ PublicAskSettle(i, r)
               \/ page = "chat" /\ ChatAskSettle(i, r)) =>
                  asks' = RemoveAt(asks, i)
       /\ Len(asks') > Len(asks) =>
              \/ \E t \in Texts : VoiceResult(t) \/ PublicResult(t)
              \/ ChatVoiceTimerFire]_vars

\* on the public page the one request sent was answered with a failure and
\* nothing is in flight
C18_Witness ==
    /\ page = "public"
    /\ Len(conversationHistory) = 1
    /\ conversationHistory[1].role = "user"
    /\ status.type = "error"
    /\ asks = <<>>

\* C19, as the spec states it: on the voice page a press of the record
\* control while a request is in flight and the status is Processing starts
\* a new Listening session.
C19_PressWhileProcessingListens ==
    [][(/\ page = "voice"
        /\ asks # <<>>
        /\ status.type = "processing"
        /\ ~isRecording
        /\ VoicePress) =>
            /\ isRecording'
            /\ status'.type = "listening"]_vars

\* C19, amended: on the voice page a press while a request is in flight is
\* accepted and leaves the requests in flight alone; it starts a new
\* Listening session when the earlier recognition session has ended, and
\* otherwise (recognition.start() throws) it ends not recording with the
\* status Processing.  A transcript recognised while requests are in flight
\* adds its request behind them, none is removed.  A success response to any
\* of the requests in flight, whatever its position, removes that request,
\* appends its assistant turn to the history and sets the status to Ready,
\* Speaking or Error.
C19_RequestsOverlap ==
    [][/\ (page = "voice" /\ asks # <<>> /\ ~isRecording /\ VoicePress) =>
              /\ asks' = asks
              /\ IF recState = "idle"
                 THEN /\ isRecording'
                      /\ recState' = "listening"
                      /\ status' = Status("Listening...", "listening")
                 ELSE /\ ~isRecording'
                      /\ recState' = recState
                      /\ status' = Status("Processing...", "processing")
       /\ (page = "voice" /\ asks # <<>> /\ recState' = "ending") =>
              \A t \in Texts :
                  (VoiceResult(t) /\ ~IsBlank(t)) =>
                      /\ Len(asks') = Len(asks) + 1
                      /\ SubSeq(asks', 1, Len(asks)) = asks
       /\ page = "voice" =>
              \A i \in 1..Len(asks) : \A r \in SuccessResponses :
                  VoiceAskSettle(i, r) =>
                      /\ asks' = RemoveAt(asks, i)
                      /\ conversationHistory' =
                             Append(conversationHistory,
                                    Turn("assistant", r.response_text))
                      /\ status'.type \in {"ready", "speaking", "error"}]_vars

\* two requests of the voice page are in flight together
C19_Witness ==
    /\ page = "voice"
    /\ Len(asks) = 2
    /\ Len(conversationHistory) = 2

C21_MicrophoneRefused ==
    [][/\ (gumPending > 0 /\ GetUserMediaSettle(FALSE, {})) =>
              /\ recorders' = recorders
              /\ orphanStreams' = orphanStreams
              /\ mediaRecorder' = mediaRecorder
              /\ uploads' = uploads
              /\ recordingResult' =
                     Result("Error accessing microphone. Please allow microphone permissions in your browser settings.",
                            "error")
              /\ setupUI'.text = "Ready to record"
              /\ ~isRecordingSetup'
       /\ (/\ recordingResult.type = "error"
           /\ ~isRecordingSetup
           /\ gumPending = 0
           /\ SetupPress) =>
              /\ gumPending' = 1
              /\ setupPressed']_vars

\* the microphone was refused, nothing was recorded, and a fresh attempt is
\* waiting for its grant
C21_Witness ==
    /\ recordingResult =
           Result("Error accessing microphone. Please allow microphone permissions in your browser settings.",
                  "error")
    /\ recorders = <<>>
    /\ orphanStreams = 0
    /\ uploads = <<>>
    /\ ~isRecordingSetup
    /\ gumPending = 1

C23_WindowEndsWithRequestText ==
    \A i \in 1..Len(asks) :
        LET sent == asks[i].conversation_history
        IN  /\ Len(sent) >= 1
            /\ sent[Len(sent)] = Turn("user", asks[i].text)

\* a typed message of the chat page is in flight with two earlier turns in
\* its window
C23_Witness ==
    /\ page = "chat"
    /\ Len(asks) = 1
    /\ asks[1].key = "prompt"
    /\ Len(asks[1].conversation_history) = 3

\* C24, as the spec states it: when the stop callback of a setup recording
\* runs at least 30 seconds after that recording's own start, the duration
\* it validates, measured from the start timestamp it reads, is at least 30
\* seconds too.
C24_DurationFromOwnStart ==
    [][\A r \in 1..Len(recorders) :
          (/\ recorders[r].phase = "stopping"
           /\ recorders'[r].phase = "done"
           /\ ~TooShort(now - recorders[r].startedAt)) =>
              ~TooShort(now - recordingStartTime)]_vars

\* C25, as the spec states it: the blob the stop callback of a recorder
\* uploads is made of the non-empty chunks that recorder delivered, all of
\* them, in delivery order, and of no chunk of another recorder.
C25_BlobHoldsOwnChunks ==
    [][\A r \in 1..Len(recorders) :
          (/\ recorders[r].phase = "stopping"
           /\ recorders'[r].phase = "done"
           /\ Len(uploads') > Len(uploads)) =>
              uploads'[Len(uploads')].blob.parts =
                  [i \in 1..recorders[r].own |-> [rec |-> r, n |-> i]]]_vars

\* C26, as the spec states it: whenever a setup recording is active the
\* pressed flag of the record button is true, so that the next release
\* event stops the recording.
C26_ActiveRecordingIsPressed ==
    isRecordingSetup => setupPressed

\* C27, as the spec states it: at most one recording-timer interval exists
\* at any time, and when no setup recording is active none is running.
C27_OneTimerOnlyWhileRecording ==
    /\ Cardinality(intervals) <= 1
    /\ ~isRecordingSetup => intervals = {}

\* C28: the step that handles a response appends one assistant turn to the
\* history when the response is a success and leaves the history as it is
\* when it is a failure; the number of assistant turns grows in no other
\* step, and by one; so the assistant turns are never more than the user
\* turns, and the user turn of a failed exchange stays without a reply.
C28_OneReplyPerSuccess ==
    [][/\ TurnsOf(conversationHistory', "assistant")
              <= TurnsOf(conversationHistory', "user")
       /\ Len(asks') < Len(asks) =>
              \A i \in 1..Len(asks) : \A r \in AskResponses :
                  (\/ page = "voice" /\ VoiceAskSettle(i, r)
                   \/ page = "public" /\ PublicAskSettle(i, r)
                   \/ page = "chat" /\ ChatAskSettle(i, r)) =>
                      conversationHistory' =
                          IF r.net /\ r.ok /\ r.json /\ r.success
                          THEN Append(conversationHistory,
                                      Turn("assistant", ResponseText))
                          ELSE conversationHistory
       /\ TurnsOf(conversationHistory', "assistant")
              > TurnsOf(conversationHistory, "assistant") =>
              /\ Len(asks') < Len(asks)
              /\ TurnsOf(conversationHistory', "assistant")
                     = TurnsOf(conversationHistory, "assistant") + 1]_vars

\* on the chat page a first exchange failed and a second one was answered:
\* the first user turn has no reply
C28_Witness ==
    /\ page = "chat"
    /\ asks = <<>>
    /\ Len(conversationHistory) = 3
    /\ conversationHistory[1].role = "user"
    /\ conversationHistory[2].role = "user"
    /\ conversationHistory[3].role = "assistant"

\* C29, as the spec states it: regenerateMessage called with a user turn in
\* the history issues one generate request whose prompt is the content of
\* the most recent user turn.
C29_PromptIsLastUserContent ==
    [][(page = "chat" /\ LastUserIndex(conversationHistory) # 0
           /\ RegenerateCall) =>
              /\ Len(asks') = Len(asks) + 1
              /\ asks'[Len(asks')].key = "prompt"
              /\ asks'[Len(asks')].text =
                     conversationHistory[
                         LastUserIndex(conversationHistory)].content]_vars

\* C29, amended: regenerateMessage called with no user turn in the history
\* sends no request and changes neither the history nor the agent messages
\* displayed (it shows a system message); called with a user turn it adds
\* exactly one request, to the generate endpoint, behind the requests in
\* flight, and its prompt is the trimmed content of the most recent user
\* turn.
C29_RegenerateSendsTrimmedLastUserTurn ==
    [][(page = "chat" /\ RegenerateCall) =>
          LET h == conversationHistory
              u == LastUserIndex(h)
          IN  IF u = 0
              THEN /\ asks' = asks
                   /\ conversationHistory' = h
                   /\ chatMessages' = chatMessages
                   /\ lastSystem' = "No previous message to regenerate"
              ELSE /\ Len(asks') = Len(asks) + 1
                   /\ SubSeq(asks', 1, Len(asks)) = asks
                   /\ asks'[Len(asks')].url = "/api/generate/"
                   /\ asks'[Len(asks')].key = "prompt"
                   /\ asks'[Len(asks')].text = Trim(h[u].content)]_vars

\* regenerateMessage was called with no user turn in the history
C29_Witness ==
    /\ page = "chat"
    /\ lastSystem = "No previous message to regenerate"
    /\ conversationHistory = <<>>
    /\ asks = <<>>

\* document.querySelectorAll('#typing-indicator').length
TypingIndicators(msgs) ==
    Cardinality({k \in 1..Len(msgs) : msgs[k] = "typing"})

\* C30: in the chat page the number of typing indicators displayed equals
\* the number of generate/ask requests in flight.
C30_IndicatorPerRequest ==
    page = "chat" => TypingIndicators(chatMessages) = Len(asks)

\* the fetches in flight that belong to the handleFileUpload call job
RequestsOf(job) ==
    {i \in 1..Len(fileRequests) : fileRequests[i].job = job}

\* C31: one handleFileUpload call uploads its files one at a time in
\* selection order, whatever the outcome of each: at most one of its
\* requests is in flight, that request is for the file that follows the
\* files already answered, and when none is in flight every file has been
\* answered.
C31_OneFileAtATimeInOrder ==
    \A j \in 1..Len(fileJobs) :
        LET job == fileJobs[j]
        IN  /\ Cardinality(RequestsOf(j)) <= 1
            /\ Len(job.outcomes) <= Len(job.files)
            /\ \A i \in RequestsOf(j) :
                   /\ fileRequests[i].file = Len(job.outcomes) + 1
                   /\ fileRequests[i].name = job.files[fileRequests[i].file]
            /\ RequestsOf(j) = {} => Len(job.outcomes) = Len(job.files)

\* a call whose first file failed and whose second file was uploaded, with
\* the third one's request in flight
C31_Witness ==
    \E j \in 1..Len(fileJobs) :
        /\ Len(fileJobs[j].files) = 3
        /\ fileJobs[j].outcomes = <<"error", "complete">>
        /\ \E i \in RequestsOf(j) : fileRequests[i].file = 3

\* C32: currentStep is an integer from 1 to 5 after every handler and
\* continuation of the wizard; nextStep at 5 and prevStep at 1 leave it
\* unchanged.
C32_StepWithinWizard ==
    [][/\ currentStep' \in 1..LastStep
       /\ (currentStep = LastStep /\ WizardNextStep) =>
              currentStep' = LastStep
       /\ (currentStep = 1 /\ WizardPrevStep) => currentStep' = 1]_vars

\* the summary step, reached by the continuation of uploadFiles
C32_Witness ==
    /\ page = "onboarding"
    /\ currentStep = LastStep
    /\ summary = "shown"
    /\ wizardUploads = <<>>

\* C33: a failed upload (network error, non-2xx, unparsable body or
\* success:false) is answered by an alert only: its continuation changes
\* neither the step, which stays 4, nor the summary; and a continuation of
\* uploadFiles moves the wizard to step 5 and shows the summary only for a
\* success response.
C33_SummaryOnlyAfterSuccess ==
    [][\A i \in 1..Len(wizardUploads) :
          /\ \A r \in WizardResponses :
                 (~IsSuccess(r) /\ WizardUploadSettle(i, r)) =>
                     /\ currentStep' = currentStep
                     /\ shownStep' = shownStep
                     /\ summary' = summary
                     /\ alerts' = uploadFilesAlert(r)
                     /\ wizardUploads' = RemoveAt(wizardUploads, i)
          /\ (/\ WizardUploadTimer(i)
              /\ currentStep' = LastStep
              /\ wizardUploads[i].phase = "complete") =>
                 IsSuccess(wizardUploads[i].response)]_vars

\* an upload failed: the alert was shown and the wizard is still at step 4
\* without a summary
C33_Witness ==
    /\ page = "onboarding"
    /\ currentStep = ProcessingStep
    /\ shownStep = ProcessingStep
    /\ alerts = "Error: no text found"
    /\ summary = Null
    /\ wizardUploads = <<>>

\* no two entries with the same name and the same size
NoTwoAlike(selected) ==
    \A i, j \in 1..Len(selected) :
        (selected[i].name = selected[j].name
            /\ selected[i].size = selected[j].size) => i = j

\* the place of file in the list selected, 0 when it is not there
PlaceOf(selected, file) ==
    IF FindFile(selected, file)
    THEN CHOOSE k \in 1..Len(selected) : selected[k] = file
    ELSE 0

\* the entries of before still in after are in the same order, and the
\* entries that are new in after come behind them
KeepsOrder(before, after) ==
    \A i, j \in 1..Len(after) :
        i < j =>
            /\ PlaceOf(before, after[j]) # 0 =>
                   /\ PlaceOf(before, after[i]) # 0
                   /\ PlaceOf(before, after[i]) < PlaceOf(before, after[j])

\* C34: after every handleFiles and removeFile call selectedFiles holds no
\* two entries with the same name and size, the entries it already had are
\* in the order they had, and the entries added stand behind them.
C34_NoDuplicateOrderKept ==
    [][/\ NoTwoAlike(selectedFiles')
       /\ KeepsOrder(selectedFiles, selectedFiles')]_vars

\* three files chosen, two of them with the same name, in the order in
\* which they were chosen
C34_Witness ==
    /\ page = "onboarding"
    /\ Len(selectedFiles) = 3
    /\ selectedFiles[1] = [name |-> "essay.txt", size |-> 1024]
    /\ selectedFiles[2] = [name |-> "essay.txt", size |-> 2048]
    /\ selectedFiles[3] = [name |-> "cv.pdf", size |-> 1024]

\* C35: after every handleFiles or removeFile call the upload button is
\* disabled exactly when selectedFiles is empty.
C35_ButtonDisabledIffNoFiles ==
    [][((\E files \in Batches : WizardHandleFiles(files))
           \/ (\E index \in 0..(Len(selectedFiles) - 1) :
                   WizardRemoveFile(index))) =>
          (uploadBtnDisabled' <=> selectedFiles' = <<>>)]_vars

\* the button enabled with two files chosen
C35_Witness ==
    /\ page = "onboarding"
    /\ ~uploadBtnDisabled
    /\ Len(selectedFiles) = 2

\* C36: on the voice page, while the auth check is pending no profile fetch
\* is in flight, no recognizer exists and no record button answers; when it
\* settles, each failure (network error, non-2xx, unparsable body,
\* authenticated:false) sets the location to /login/, and whatever the
\* outcome the profile fetch starts, the recognizer is initialised and the
\* listeners are set.
C36_StartUpFollowsAuthCheck ==
    [][/\ (page = "voice" /\ boot' = "auth") =>
              /\ ~profilePending' /\ ~recognition'
              /\ ~isRecording' /\ ~isRecordingSetup' /\ ~setupPressed'
              /\ gumPending' = 0 /\ navigation' = Null
       /\ (page = "voice" /\ boot = "auth") =>
              \A r \in AuthResponses, supported \in BOOLEAN :
                  VoiceAuthSettle(r, supported) =>
                      /\ (~(r.net /\ r.ok /\ r.json /\ r.authenticated)) =>
                             navigation' = "/login/"
                      /\ profilePending'
                      /\ recognition' = supported
                      /\ boot' = "ready"]_vars

\* the auth check failed: the redirect was issued and the profile fetch was
\* started all the same
C36_Witness ==
    /\ page = "voice"
    /\ navigation = "/login/"
    /\ boot = "ready"
    /\ profilePending
    /\ recognition

====
